---- MODULE Spec2Model ----
(***************************************************************************)
(* A model of the tiled, halo-aware feature/prediction core of webilastik: *)
(* region splitting, channel-wise feature extraction with halos, the       *)
(* operator cache, composite extractors, the applicability gate, and the   *)
(* three orchestration backends of benchmarks/pixel_classification.        *)
(*                                                                         *)
(* The module holds several specifications, one per subsystem; each one    *)
(* drives its own group of variables and leaves the other groups at their  *)
(* idle values.                                                            *)
(***************************************************************************)
EXTENDS Integers, Sequences, FiniteSets, TLC

VARIABLES
    \* ---- region splitting (Interval5D.split and its callers)
    sp_pc,          \* "init" | "tiles" | "steps": which caller has split
    sp_roi,         \* the region that is split
    sp_block,       \* the block shape handed to split
    sp_axis_2d,     \* ChannelwiseFastFilter.axis_2d ("none" when unset)
    sp_tiles,       \* the sequence of tiles split returned
    \* ---- FeatureExtractorCollection.compute_into
    co_pc,          \* "init" | "loop" | "done" | "assert_failed"
    co_extractors,  \* the children, each by its channel_multiplier
    co_in_c,        \* channel count of input_roi
    co_out,         \* the out block: [start_c, c] (first channel, channel count)
    co_offset,      \* offset.c, the loop's running channel offset
    co_idx,         \* index of the next child to run
    co_ranges,      \* the channel range <<lo, hi>> each child was handed, in call order
    co_writers,     \* per channel of out: the children that wrote it, in call order
    \* ---- the applicability gate (is_applicable_to / ensure_applicable / compute)
    ap_pc,          \* "init" | "asked" | "ensured" | "returned"
    ap_fx,          \* the extractor: [kind, kernel_shape, num_input_channels, axis_2d]
    ap_source,      \* datasource.shape
    ap_checked,     \* the caller ran ensure_applicable before compute
    ap_answer,      \* what is_applicable_to returned ("none" before the call)
    ap_outcome,     \* "none" | "ok" | "mismatch" | "block" | "kernel_error"
    \* ---- the operator cache (functools.lru_cache around compute)
    ca_cache,       \* the cache entries [key, value], least recently used first
    ca_next,        \* index of the next fresh key the caller will ask for
    ca_calls,       \* per key: how often the kernel body has run for it
    ca_first,       \* per key already asked for: the block its first call returned
    ca_since,       \* the distinct other keys computed since HotKey was last asked for
    ca_last,        \* the last call: [key, value, hit, gap, obj, wrote]
    \* ---- threads calling the cached compute concurrently
    ra_pc,          \* per thread: "idle" | "lookup" | "kernel" | "insert" | "done"
    ra_roi,         \* per thread: the region of its current call (0 when idle)
    ra_cache,       \* the regions that have a cache entry
    ra_calls,       \* per region: how often the kernel body has run for it
    \* ---- tiled against direct feature computation (ChannelwiseFastFilter.compute)
    ha_pc,          \* "init" | "tiling" | "done"
    ha_fx,          \* the extractor: [reach, multiplier, axis_2d]
    ha_source,      \* the data source's region
    ha_roi,         \* the region R that is computed
    ha_tiles,       \* the partition of R
    ha_idx,         \* index of the next tile to compute
    ha_direct,      \* the block of one compute call over R
    ha_merged,      \* the buffer the tile results are set into
    \* ---- merging tile results into the output buffer (predictions.set)
    me_roi,         \* the region of the output buffer
    me_tiles,       \* the partition of me_roi
    me_merged,      \* the indices of the tiles merged so far
    me_shuffled,    \* some tile was merged before a tile that precedes it in me_tiles
    me_buffer,      \* the output buffer
    \* ---- the orchestration backends of the benchmark script
    or_pc,          \* "start" | "allocated" | "running" | "finished" | "error": the current run
    or_backend,     \* args.orchestrator of the current run, "server" for a request to the server
    or_workers,     \* args.num_workers
    or_roi,         \* datasource.roi
    or_tiles,       \* the tiles of datasource.roi
    or_fail,        \* the indices of the tiles whose prediction raises
    or_state,       \* per tile: "queued" | "running" | "predicted" | "setting" | "set" | "failed"
    or_batches,     \* process-pool, server: the batches, each a sequence of tile indices
    or_batch_state, \* process-pool, server: per batch "queued" | "done" | "failed"
    or_next,        \* process-pool, server: the next batch whose results the main loop takes
    or_predictions, \* the predictions buffer of the current run
    or_runs,        \* per backend: [outcome, predictions] of its run ("none" before)
    or_computed,    \* per tile: how often classifier.predict was called on it in this run
    or_merged,      \* the tiles whose result was set into the buffer, in the order of the sets
    or_ranks,       \* distributed: per worker rank "waiting" | "computing" | "failed" | "stopped"
    or_assigned,    \* distributed: per tile the worker rank it was sent to (0: none)
    \* ---- the process-pool branch's batching of the tile list
    ba_pc,          \* "init" | "sized" | "done"
    ba_slices,      \* len(all_slices)
    ba_workers,     \* args.num_workers
    ba_batch_size,  \* batch_size
    ba_batches,     \* batches, each a sequence of indices into all_slices
    ba_outcome,     \* "none" | "ok" | "ValueError"
    \* ---- construction of annotations over one raw dataset
    an_raw,         \* raw_data.roi
    an_annotations, \* the regions of the annotations that exist
    an_last,        \* the last construction: [via, roi, outcome]
    \* ---- Annotation.get_feature_samples
    fs_pc,          \* "running" | "returned" | "IndexError"
    fs_raw,         \* self.raw_data: its region
    fs_roi,         \* self.roi: the annotation's region
    fs_mask,        \* the x positions of the annotation's true voxels
    fs_tiles,       \* the data tiles handed to make_samples, in submission order
    fs_fail,        \* the indices of the tiles whose data retrieval or feature computation raises
    fs_state,       \* per tile: "queued" | "computed" | "done" | "failed"
    fs_all,         \* all_feature_samples: per finished tile its sample rows
    fs_result,      \* the rows of the returned feature matrix (<<>> before the return)
    \* ---- channel-wise computation: compute_into and ChannelwiseFastFilter.compute
    cw_pc,          \* "start" | "compute_into" | "compute" | "done"
    cw_path,        \* "compute_into" (ChannelwiseFilter) | "compute" (ChannelwiseFastFilter)
    cw_fx,          \* the extractor: [multiplier, axis_2d, presmooth_sigma, kind]
    cw_source,      \* the data source's region
    cw_roi,         \* the input region
    cw_stack,       \* the running compute calls, outermost first
    cw_in,          \* the input pieces of the outermost call
    cw_out,         \* per sub-problem of the outermost call, the output region it wrote
    cw_idx,         \* compute_into: the next pair of the zip
    cw_block,       \* the region of the output block (<<>> until it exists)
    cw_writers,     \* per output voxel, the sub-problems that wrote it
    cw_inputs,      \* per sub-problem of the outermost call, the kernel's input [roi, data]
    cw_requests,    \* the regions asked of the preprocessor so far
    \* ---- ng_predict: a prediction chunk served as raw bytes
    wi_pc,          \* "request" | "served"
    wi_source,      \* the data source's region over x, y, z and c
    wi_classes,     \* the number of channels of the classifier's predictions
    wi_request,     \* xBegin..zEnd: the requested region over x, y and z
    wi_predictions, \* the block returned by do_predictions: [roi, data]
    wi_body,        \* the response body, a sequence of bytes
    \* ---- _requests_from_data_proxy: one call, its requests and its token refresh
    px_pc,          \* "call" | "refresh" | "returned"
    px_method,      \* "get" | "put" | "delete"
    px_url,         \* the object asked for
    px_refresh_on_401, \* the parameter of the running (possibly nested) call
    px_sent,        \* the status of every HTTP request sent to the data proxy, in order
    px_refreshes,   \* the outcome of every token refresh, in order
    px_result,      \* what the call returned ([kind, status]; <<>> before the return)
    \* ---- serialization round trips: extractors through JSON, BucketFs through its DTO
    rt_pc,          \* "object" | "encoded" | "decoded"
    rt_x,           \* the original object
    rt_data,        \* to_json_data(x) / to_dto(): the encoded form (<<>> before)
    rt_y,           \* from_json_data(data) / from_dto(dto): the decoded object (<<>> before)
    \* ---- BucketFs.read_file / get_size: one call, the data proxy's and the object store's answers
    bk_pc,          \* "call" | "store" | "returned"
    bk_op,          \* "read_file" | "get_size"
    bk_size,        \* the size in bytes of the object at the path
    bk_proxy,       \* what _requests_from_data_proxy returned (<<>> before)
    bk_store,       \* the object store's answer to the ranged GET (<<>> before)
    bk_downloaded,  \* the number of body bytes the object store sent
    bk_result,      \* what the call returned ([kind, value]; <<>> before the return)
    \* ---- BucketFs.delete: one call, its listings, its delete request and its waiting
    de_pc,          \* "list" | "delete" | "poll" | "returned"
    de_wait_time,   \* the argument dir_wait_time, whole seconds
    de_wait_interval, \* the argument dir_wait_interval, a float
    de_left,        \* the local dir_wait_time as the loop counts it down, a float
    de_contents,    \* dir_contents_result, the listing before the delete request (<<>> before)
    de_deletions,   \* the delete requests sent to the data proxy, by outcome
    de_polls,       \* the listings fetched by the waiting loop, in order
    de_result,      \* what delete returned ("" before the return)
    \* ---- export_worker.main: one export job run step by step
    ex_pc,          \* "setup" | "running" | "exited"
    ex_job,         \* the key of the job spec: "pixel_probabilities" | "simple_segmentation" | "unknown"
    ex_roi,         \* datasource.roi
    ex_tile_shape,  \* sink_writer.data_sink.tile_shape
    ex_args,        \* export_job.args, the tile partition (<<>> before the job is created)
    ex_ran,         \* the steps run so far, in order: [arg, result]
    ex_status,      \* the exit status of the process (-1 while it runs)
    ex_completed,   \* whether "Export completed successfully" was printed
    \* ---- the server's do_predictions: concurrent requests over the module's executors
    sv_workers,     \* args.num_workers
    sv_tiles,       \* the number of tiles of the requested region
    sv_hash,        \* hash(slc) of every tile
    sv_pc,          \* per request: "start" | "submitting" | "collecting" | "returned" | "error"
    sv_batches,     \* per request: slc_batches.items(), each [idx, slices]
    sv_submitted,   \* per request: the number of batches submitted
    sv_next,        \* per request: the future whose results are taken next
    sv_merged,      \* per request: per tile, how often its result was set into predictions
    sv_queues,      \* per executor: the work items waiting, each [request, batch]
    sv_running,     \* per executor: the work items its worker processes are running
    sv_done,        \* the work items that have finished: item -> "result" | "exception"
    \* ---- Color.create_color_map and FeatureSamples.get_y
    cm_pc,          \* "colors" | "mapped" | "labelled"
    cm_colors,      \* set(colors), the distinct colors handed to create_color_map
    cm_order,       \* the order in which the set is iterated
    cm_map,         \* the color map returned: color -> label index
    cm_volume,      \* the number of sample rows of the FeatureSamples
    cm_y,           \* get_y(label_class): the label column, one row per sample row
    \* ---- the construction of an extractor and the source of its kernel input
    kx_pc,          \* "arguments" | "constructed" | "computed"
    kx_args,        \* the constructor's arguments, the preprocessor passed in among them
    kx_x,           \* the instance (<<>> before)
    kx_smoothing,   \* compute: the presmoothing sub-operator built for a piece (<<>>: none)
    kx_read_by      \* compute: the preprocessor whose compute supplied the raw data ("" before)

varsSplit == <<sp_pc, sp_roi, sp_block, sp_axis_2d, sp_tiles>>
varsColl == <<co_pc, co_extractors, co_in_c, co_out, co_offset, co_idx,
              co_ranges, co_writers>>

varsApplic == <<ap_pc, ap_fx, ap_source, ap_checked, ap_answer, ap_outcome>>

varsCache == <<ca_cache, ca_next, ca_calls, ca_first, ca_since, ca_last>>

varsRace == <<ra_pc, ra_roi, ra_cache, ra_calls>>

varsHalo == <<ha_pc, ha_fx, ha_source, ha_roi, ha_tiles, ha_idx, ha_direct, ha_merged>>

varsMerge == <<me_roi, me_tiles, me_merged, me_shuffled, me_buffer>>

varsOrch == <<or_pc, or_backend, or_workers, or_roi, or_tiles, or_fail, or_state, or_batches, or_batch_state, or_next, or_predictions, or_runs,
              or_computed, or_merged, or_ranks, or_assigned>>

varsBatch == <<ba_pc, ba_slices, ba_workers, ba_batch_size, ba_batches, ba_outcome>>

varsAnnot == <<an_raw, an_annotations, an_last>>

varsSamples == <<fs_pc, fs_raw, fs_roi, fs_mask, fs_tiles, fs_fail, fs_state, fs_all, fs_result>>

varsChan == <<cw_pc, cw_path, cw_fx, cw_source, cw_roi, cw_stack, cw_in, cw_out, cw_idx, cw_block, cw_writers, cw_inputs, cw_requests>>

varsWire == <<wi_pc, wi_source, wi_classes, wi_request, wi_predictions, wi_body>>

varsProxy == <<px_pc, px_method, px_url, px_refresh_on_401, px_sent, px_refreshes, px_result>>

varsRound == <<rt_pc, rt_x, rt_data, rt_y>>

varsBucket == <<bk_pc, bk_op, bk_size, bk_proxy, bk_store, bk_downloaded, bk_result>>

varsDelete == <<de_pc, de_wait_time, de_wait_interval, de_left, de_contents, de_deletions, de_polls, de_result>>

varsExport == <<ex_pc, ex_job, ex_roi, ex_tile_shape, ex_args, ex_ran, ex_status, ex_completed>>

varsServe == <<sv_workers, sv_tiles, sv_hash, sv_pc, sv_batches, sv_submitted, sv_next, sv_merged, sv_queues, sv_running, sv_done>>

varsColor == <<cm_pc, cm_colors, cm_order, cm_map, cm_volume, cm_y>>

varsBuild == <<kx_pc, kx_args, kx_x, kx_smoothing, kx_read_by>>

vars == <<varsSplit, varsColl, varsApplic, varsCache, varsRace, varsHalo, varsMerge, varsOrch, varsBatch, varsAnnot, varsSamples, varsChan, varsWire, varsProxy, varsRound, varsBucket, varsDelete, varsExport, varsServe, varsColor, varsBuild>>

\* what each specification leaves alone
restSplit == <<varsColl, varsApplic, varsCache, varsRace, varsHalo, varsMerge, varsOrch, varsBatch, varsAnnot, varsSamples, varsChan, varsWire, varsProxy, varsRound, varsBucket, varsDelete, varsExport, varsServe, varsColor, varsBuild>>
restColl == <<varsSplit, varsApplic, varsCache, varsRace, varsHalo, varsMerge, varsOrch, varsBatch, varsAnnot, varsSamples, varsChan, varsWire, varsProxy, varsRound, varsBucket, varsDelete, varsExport, varsServe, varsColor, varsBuild>>
restApplic == <<varsSplit, varsColl, varsCache, varsRace, varsHalo, varsMerge, varsOrch, varsBatch, varsAnnot, varsSamples, varsChan, varsWire, varsProxy, varsRound, varsBucket, varsDelete, varsExport, varsServe, varsColor, varsBuild>>
restCache == <<varsSplit, varsColl, varsApplic, varsRace, varsHalo, varsMerge, varsOrch, varsBatch, varsAnnot, varsSamples, varsChan, varsWire, varsProxy, varsRound, varsBucket, varsDelete, varsExport, varsServe, varsColor, varsBuild>>
restRace == <<varsSplit, varsColl, varsApplic, varsCache, varsHalo, varsMerge, varsOrch, varsBatch, varsAnnot, varsSamples, varsChan, varsWire, varsProxy, varsRound, varsBucket, varsDelete, varsExport, varsServe, varsColor, varsBuild>>
restHalo == <<varsSplit, varsColl, varsApplic, varsCache, varsRace, varsMerge, varsOrch, varsBatch, varsAnnot, varsSamples, varsChan, varsWire, varsProxy, varsRound, varsBucket, varsDelete, varsExport, varsServe, varsColor, varsBuild>>
restMerge == <<varsSplit, varsColl, varsApplic, varsCache, varsRace, varsHalo, varsOrch, varsBatch, varsAnnot, varsSamples, varsChan, varsWire, varsProxy, varsRound, varsBucket, varsDelete, varsExport, varsServe, varsColor, varsBuild>>
restOrch == <<varsSplit, varsColl, varsApplic, varsCache, varsRace, varsHalo, varsMerge, varsBatch, varsAnnot, varsSamples, varsChan, varsWire, varsProxy, varsRound, varsBucket, varsDelete, varsExport, varsServe, varsColor, varsBuild>>
restBatch == <<varsSplit, varsColl, varsApplic, varsCache, varsRace, varsHalo, varsMerge, varsOrch, varsAnnot, varsSamples, varsChan, varsWire, varsProxy, varsRound, varsBucket, varsDelete, varsExport, varsServe, varsColor, varsBuild>>
restAnnot == <<varsSplit, varsColl, varsApplic, varsCache, varsRace, varsHalo, varsMerge, varsOrch, varsBatch, varsSamples, varsChan, varsWire, varsProxy, varsRound, varsBucket, varsDelete, varsExport, varsServe, varsColor, varsBuild>>
restSamples == <<varsSplit, varsColl, varsApplic, varsCache, varsRace, varsHalo, varsMerge, varsOrch, varsBatch, varsAnnot, varsChan, varsWire, varsProxy, varsRound, varsBucket, varsDelete, varsExport, varsServe, varsColor, varsBuild>>
restChan == <<varsSplit, varsColl, varsApplic, varsCache, varsRace, varsHalo, varsMerge, varsOrch, varsBatch, varsAnnot, varsSamples, varsWire, varsProxy, varsRound, varsBucket, varsDelete, varsExport, varsServe, varsColor, varsBuild>>
restWire == <<varsSplit, varsColl, varsApplic, varsCache, varsRace, varsHalo, varsMerge, varsOrch, varsBatch, varsAnnot, varsSamples, varsChan, varsProxy, varsRound, varsBucket, varsDelete, varsExport, varsServe, varsColor, varsBuild>>
restProxy == <<varsSplit, varsColl, varsApplic, varsCache, varsRace, varsHalo, varsMerge, varsOrch, varsBatch, varsAnnot, varsSamples, varsChan, varsWire, varsRound, varsBucket, varsDelete, varsExport, varsServe, varsColor, varsBuild>>
restRound == <<varsSplit, varsColl, varsApplic, varsCache, varsRace, varsHalo, varsMerge, varsOrch, varsBatch, varsAnnot, varsSamples, varsChan, varsWire, varsProxy, varsBucket, varsDelete, varsExport, varsServe, varsColor, varsBuild>>
restBucket == <<varsSplit, varsColl, varsApplic, varsCache, varsRace, varsHalo, varsMerge, varsOrch, varsBatch, varsAnnot, varsSamples, varsChan, varsWire, varsProxy, varsRound, varsDelete, varsExport, varsServe, varsColor, varsBuild>>
restDelete == <<varsSplit, varsColl, varsApplic, varsCache, varsRace, varsHalo, varsMerge, varsOrch, varsBatch, varsAnnot, varsSamples, varsChan, varsWire, varsProxy, varsRound, varsBucket, varsExport, varsServe, varsColor, varsBuild>>
restExport == <<varsSplit, varsColl, varsApplic, varsCache, varsRace, varsHalo, varsMerge, varsOrch, varsBatch, varsAnnot, varsSamples, varsChan, varsWire, varsProxy, varsRound, varsBucket, varsDelete, varsServe, varsColor, varsBuild>>
restServe == <<varsSplit, varsColl, varsApplic, varsCache, varsRace, varsHalo, varsMerge, varsOrch, varsBatch, varsAnnot, varsSamples, varsChan, varsWire, varsProxy, varsRound, varsBucket, varsDelete, varsExport, varsColor, varsBuild>>
restColor == <<varsSplit, varsColl, varsApplic, varsCache, varsRace, varsHalo, varsMerge, varsOrch, varsBatch, varsAnnot, varsSamples, varsChan, varsWire, varsProxy, varsRound, varsBucket, varsDelete, varsExport, varsServe, varsBuild>>
restBuild == <<varsSplit, varsColl, varsApplic, varsCache, varsRace, varsHalo, varsMerge, varsOrch, varsBatch, varsAnnot, varsSamples, varsChan, varsWire, varsProxy, varsRound, varsBucket, varsDelete, varsExport, varsServe, varsColor>>

-----------------------------------------------------------------------------
(* Arithmetic helpers *)

Max(a, b) == IF a >= b THEN a ELSE b

Min(a, b) == IF a <= b THEN a ELSE b

\* math.ceil(a / b) for a >= 0, b >= 1
CeilDiv(a, b) == (a + b - 1) \div b

RECURSIVE SumSeq(_)
SumSeq(s) == IF Len(s) = 0 THEN 0 ELSE Head(s) + SumSeq(Tail(s))

-----------------------------------------------------------------------------
(* Coordinate and region model (ndstructs Point5D / Shape5D / Interval5D). *)
(* A point or shape is a function from axis labels to integers; a region   *)
(* is a half-open box [start, stop).                                       *)

\* Point5D.LABELS: the fixed axis order (time, z, y, x, channel)
AxisOrder == <<"t", "z", "y", "x", "c">>

AxesOf(R) == DOMAIN R.start

OrderedAxes(axes) == SelectSeq(AxisOrder, LAMBDA a : a \in axes)

Region(start, stop) == [start |-> start, stop |-> stop]

\* Interval5D.shape: stop - start
ShapeOf(R) == [a \in AxesOf(R) |-> R.stop[a] - R.start[a]]

\* Shape5D.to_interval5d(offset): the box of that shape anchored at offset
ToInterval(shape, offset) ==
    Region(offset, [a \in DOMAIN shape |-> offset[a] + shape[a]])

\* Shape5D.updated(**coords) / with_coord(**coords)
Updated(shape, coords) ==
    [a \in DOMAIN shape |-> IF a \in DOMAIN coords THEN coords[a] ELSE shape[a]]

Volume(R) ==
    LET RECURSIVE Prod(_)
        Prod(axes) == IF Len(axes) = 0 THEN 1
                      ELSE Max(0, R.stop[Head(axes)] - R.start[Head(axes)])
                           * Prod(Tail(axes))
    IN Prod(OrderedAxes(AxesOf(R)))

\* the voxels (integer points) a region holds
Voxels(R) ==
    IF \E a \in AxesOf(R) : R.stop[a] <= R.start[a] THEN {}
    ELSE LET lo == CHOOSE v \in {R.start[a] : a \in AxesOf(R)} :
                       \A a \in AxesOf(R) : v <= R.start[a]
             hi == CHOOSE v \in {R.stop[a] : a \in AxesOf(R)} :
                       \A a \in AxesOf(R) : v >= R.stop[a]
         IN {p \in [AxesOf(R) -> lo..(hi - 1)] :
                \A a \in AxesOf(R) : R.start[a] <= p[a] /\ p[a] < R.stop[a]}

\* Interval5D.contains(other)
Contains(R, other) ==
    \A a \in AxesOf(R) : R.start[a] <= other.start[a] /\ other.stop[a] <= R.stop[a]

\* voxel p lies in region R
InRegion(p, R) == \A a \in AxesOf(R) : R.start[a] <= p[a] /\ p[a] < R.stop[a]

\* two boxes share no voxel
Disjoint(A, B) ==
    \/ Voxels(A) = {}
    \/ Voxels(B) = {}
    \/ \E a \in AxesOf(A) : A.stop[a] <= B.start[a] \/ B.stop[a] <= A.start[a]

\* Interval5D.enlarged(radius): grows by radius on both sides, no clamping
Enlarged(R, radius) ==
    Region([a \in AxesOf(R) |-> R.start[a] - radius[a]],
           [a \in AxesOf(R) |-> R.stop[a] + radius[a]])

\* Interval5D.clamped(limits): the intersection with limits
Clamped(R, limits) ==
    Region([a \in AxesOf(R) |-> Max(R.start[a], limits.start[a])],
           [a \in AxesOf(R) |-> Min(R.stop[a], limits.stop[a])])

\* the tile intervals of one axis: consecutive blocks of block[a] anchored at
\* the region's start, the last one clamped to the region's stop
AxisIntervals(R, block, a) ==
    [k \in 1..CeilDiv(R.stop[a] - R.start[a], block[a]) |->
        <<R.start[a] + (k - 1) * block[a],
          Min(R.start[a] + k * block[a], R.stop[a])>>]

\* the grid of tiles as assignments axis -> interval, first axis slowest
RECURSIVE TileGrid(_, _, _)
TileGrid(R, block, axes) ==
    IF Len(axes) = 0 THEN << <<>> >>
    ELSE LET a == Head(axes)
             ivs == AxisIntervals(R, block, a)
             rest == TileGrid(R, block, Tail(axes))
         IN [k \in 1..(Len(ivs) * Len(rest)) |->
                (a :> ivs[((k - 1) \div Len(rest)) + 1])
                    @@ rest[((k - 1) % Len(rest)) + 1]]

\* a variant of split that forgets to clamp the last tile of an axis
SplitUnclamped(R, block) ==
    LET grid == TileGrid(R, block, OrderedAxes(AxesOf(R)))
    IN [k \in 1..Len(grid) |->
           Region([a \in AxesOf(R) |-> grid[k][a][1]],
                  [a \in AxesOf(R) |-> grid[k][a][1] + block[a]])]

\* a variant of split whose tiles reach one voxel into their neighbours
SplitOverlapping(R, block) ==
    LET grid == TileGrid(R, block, OrderedAxes(AxesOf(R)))
    IN [k \in 1..Len(grid) |->
           Region([a \in AxesOf(R) |-> Max(R.start[a], grid[k][a][1] - 1)],
                  [a \in AxesOf(R) |-> Min(R.stop[a], grid[k][a][2] + 1)])]

\* Interval5D.split(block_shape): the sequence of tiles of R
Split(R, block) ==
    LET grid == TileGrid(R, block, OrderedAxes(AxesOf(R)))
    IN [k \in 1..Len(grid) |->
           Region([a \in AxesOf(R) |-> grid[k][a][1]],
                  [a \in AxesOf(R) |-> grid[k][a][2]])]

-----------------------------------------------------------------------------
(* Block model (ndstructs Array5D): a block is a function from the voxels  *)
(* of its region to values.                                                *)

\* a voxel of a freshly allocated prediction buffer
NoPrediction == [from |-> <<>>, at |-> <<>>]

\* Array5D.combine: the blocks joined into one
Combine(blocks) ==
    [pos \in UNION {DOMAIN blocks[k] : k \in 1..Len(blocks)} |->
        LET k == CHOOSE j \in 1..Len(blocks) : pos \in DOMAIN blocks[j]
        IN blocks[k][pos]]

\* a set that clears what the buffer held outside of the block
SetBlockClearing(buffer, block) ==
    [pos \in DOMAIN buffer |-> IF pos \in DOMAIN block THEN block[pos] ELSE NoPrediction]

\* Array5D.set: the block's voxels written into the buffer
SetBlock(buffer, block) ==
    [pos \in DOMAIN buffer |-> IF pos \in DOMAIN block THEN block[pos] ELSE buffer[pos]]

-----------------------------------------------------------------------------
(* Region splitting: the two callers of split.                             *)

\* bounds of the splitting specification
MaxExtent == 3
MaxBlock == 2

SplitAxes == {"y", "x", "c"}

SplitStarts == {[a \in SplitAxes |-> 0],
                ("y" :> 1) @@ ("x" :> 2) @@ ("c" :> 0)}

\* ChannelwiseFastFilter.compute: roi_step, one sub-problem per channel, per
\* time step and, with axis_2d, per slice along that axis
RoiStep(shape, axis_2d) ==
    LET step == Updated(shape, [c |-> 1, t |-> 1])
    IN IF axis_2d # "none" THEN Updated(step, (axis_2d :> 1)) ELSE step

InitSplit ==
    /\ sp_pc = "init"
    /\ \E start \in SplitStarts, shape \in [SplitAxes -> 0..MaxExtent] :
           sp_roi = ToInterval(shape, start)
    /\ sp_block \in [SplitAxes -> 1..MaxBlock]
    /\ sp_axis_2d \in {"none", "y"}
    /\ sp_tiles = <<>>

IdleSplit ==
    /\ sp_pc = "idle"
    /\ sp_roi = <<>>
    /\ sp_block = <<>>
    /\ sp_axis_2d = "none"
    /\ sp_tiles = <<>>

\* benchmark, mpi branch: datasource.roi.split(datasource.tile_shape)
SplitIntoTiles ==
    /\ sp_pc = "init"
    /\ sp_tiles' = Split(sp_roi, sp_block)
    /\ sp_pc' = "tiles"
    /\ UNCHANGED <<sp_roi, sp_block, sp_axis_2d>>
    /\ UNCHANGED restSplit

\* ChannelwiseFastFilter.compute: roi.split(roi_step); a region with an empty
\* axis has a zero step, which split cannot use
SplitIntoSteps ==
    /\ sp_pc = "init"
    /\ \A a \in SplitAxes : sp_roi.stop[a] > sp_roi.start[a]
    /\ sp_block' = RoiStep(ShapeOf(sp_roi), sp_axis_2d)
    /\ sp_tiles' = Split(sp_roi, sp_block')
    /\ sp_pc' = "steps"
    /\ UNCHANGED <<sp_roi, sp_axis_2d>>
    /\ UNCHANGED restSplit

NextSplit ==
    \/ SplitIntoTiles
    \/ SplitIntoSteps

-----------------------------------------------------------------------------
(* Composite extractor: FeatureExtractorCollection.compute_into.           *)

\* bounds of the composite specification
MaxChildren == 3
MaxInChannels == 2

\* channel_multiplier of the channel-wise kinds: 1 by default, 2 (with
\* axis_2d) or 3 for the eigenvalue kinds
ChannelMultipliers == {1, 2, 3}

\* ChannelwiseFilter.get_expected_shape: c * channel_multiplier
ExpectedChannels(multiplier, in_c) == in_c * multiplier

\* FeatureExtractorCollection.get_expected_shape: the sum over the children
CollectionExpectedChannels(extractors, in_c) ==
    SumSeq([i \in 1..Len(extractors) |-> ExpectedChannels(extractors[i], in_c)])

\* a variant of the offset update that advances by the input's channel count
AdvanceByInputChannels(offset, out_roi_c, in_c) == offset + in_c

\* offset += Point5D.zero(c=out_roi.shape.c)
AdvanceOffset(offset, out_roi_c, in_c) == offset + out_roi_c

InitColl ==
    /\ co_pc = "init"
    /\ co_extractors \in UNION {[1..n -> ChannelMultipliers] : n \in 1..MaxChildren}
    /\ co_in_c \in 1..MaxInChannels
    /\ \E start_c \in {0, 2}, c \in 1..(3 * MaxChildren * MaxInChannels) :
           co_out = [start_c |-> start_c, c |-> c]
    /\ co_offset = 0
    /\ co_idx = 1
    /\ co_ranges = <<>>
    /\ co_writers = <<>>

IdleColl ==
    /\ co_pc = "idle"
    /\ co_extractors = <<>>
    /\ co_in_c = 0
    /\ co_out = <<>>
    /\ co_offset = 0
    /\ co_idx = 0
    /\ co_ranges = <<>>
    /\ co_writers = <<>>

\* assert out.shape == self.get_expected_shape(input_roi.shape); offset = out.roi.start
CollBegin ==
    /\ co_pc = "init"
    /\ IF co_out.c = CollectionExpectedChannels(co_extractors, co_in_c)
       THEN /\ co_pc' = "loop"
            /\ co_offset' = co_out.start_c
            /\ co_writers' = [ch \in co_out.start_c..(co_out.start_c + co_out.c - 1) |-> <<>>]
       ELSE /\ co_pc' = "assert_failed"
            /\ UNCHANGED <<co_offset, co_writers>>
    /\ UNCHANGED <<co_extractors, co_in_c, co_out, co_idx, co_ranges>>
    /\ UNCHANGED restColl

\* one pass of the loop: out_roi, out.cut(out_roi), fx.compute_into, offset += ...
\* (the child writes every channel of the block it is handed)
CollChild ==
    /\ co_pc = "loop"
    /\ co_idx <= Len(co_extractors)
    /\ LET out_roi_c == ExpectedChannels(co_extractors[co_idx], co_in_c)
           lo == co_offset
           hi == co_offset + out_roi_c
       IN /\ co_ranges' = Append(co_ranges, <<lo, hi>>)
          /\ co_writers' = [ch \in DOMAIN co_writers |->
                               IF lo <= ch /\ ch < hi
                               THEN Append(co_writers[ch], co_idx)
                               ELSE co_writers[ch]]
          /\ co_offset' = AdvanceOffset(co_offset, out_roi_c, co_in_c)
    /\ co_idx' = co_idx + 1
    /\ UNCHANGED <<co_pc, co_extractors, co_in_c, co_out>>
    /\ UNCHANGED restColl

\* return out
CollReturn ==
    /\ co_pc = "loop"
    /\ co_idx > Len(co_extractors)
    /\ co_pc' = "done"
    /\ UNCHANGED <<co_extractors, co_in_c, co_out, co_offset, co_idx, co_ranges,
                   co_writers>>
    /\ UNCHANGED restColl

NextColl ==
    \/ CollBegin
    \/ CollChild
    \/ CollReturn

-----------------------------------------------------------------------------
(* The applicability gate: is_applicable_to, ensure_applicable, and a      *)
(* compute call made with or without the check.                            *)

\* bound of the applicability specification: the largest kernel side
MaxKernel == 7

\* ChannelwiseFastFilter.halo: 30 on x, y and z
HaloRadius == 30

ApplicAxes == {"z", "y", "x", "c"}

KernelSides == {1, 3, MaxKernel}

SourceExtents == {1, MaxKernel - 2, MaxKernel, 2 * HaloRadius - 1, 2 * HaloRadius}

\* ChannelwiseFastFilter.halo: 0 on c and on axis_2d
FastFilterHalo(axes, axis_2d) ==
    [a \in axes |-> IF a \in {"x", "y", "z"} /\ a # axis_2d THEN HaloRadius ELSE 0]

\* Shape5D >= Shape5D: component-wise on every axis
ShapeGE(shape, other) == \A a \in DOMAIN shape : shape[a] >= other[a]

\* FeatureExtractor.is_applicable_to
IsApplicableBase(fx, source) == ShapeGE(source, fx.kernel_shape)

\* a variant that forgets the channel count
IsApplicableIgnoringChannels(fx, source) == ShapeGE(source, fx.kernel_shape)

\* ChannelwiseFilter.is_applicable_to
IsApplicableChannelwise(fx, source) ==
    ShapeGE(source, fx.kernel_shape) /\ source["c"] = fx.num_input_channels

\* ChannelwiseFastFilter.is_applicable_to
IsApplicableFastFilter(fx, source) ==
    ShapeGE(source, [a \in DOMAIN source |-> FastFilterHalo(DOMAIN source, fx.axis_2d)[a] * 2])

\* is_applicable_to, dispatched on the extractor's class
IsApplicableTo(fx, source) ==
    CASE fx.kind = "FeatureExtractor" -> IsApplicableBase(fx, source)
      [] fx.kind = "ChannelwiseFilter" -> IsApplicableChannelwise(fx, source)
      [] fx.kind = "ChannelwiseFastFilter" -> IsApplicableFastFilter(fx, source)

Extractors ==
    LET kernels == {[a \in ApplicAxes |->
                        IF a \in {"y", "x"} THEN k ELSE IF a = "z" THEN kz ELSE 1] :
                    k \in KernelSides, kz \in {1, 3}}
    IN  {[kind |-> "FeatureExtractor", kernel_shape |-> ks,
          num_input_channels |-> 0, axis_2d |-> "none"] : ks \in kernels}
        \cup {[kind |-> "ChannelwiseFilter", kernel_shape |-> ks,
               num_input_channels |-> n, axis_2d |-> "none"] :
              ks \in kernels, n \in 1..2}
        \cup {[kind |-> "ChannelwiseFastFilter",
               kernel_shape |-> [a \in ApplicAxes |-> 0],
               num_input_channels |-> 0, axis_2d |-> ax] : ax \in {"none", "z"}}

InitApplic ==
    /\ ap_pc = "init"
    /\ ap_fx \in Extractors
    /\ \E z, y, x \in SourceExtents, c \in 1..2 :
           ap_source = [a \in ApplicAxes |->
                           CASE a = "z" -> z [] a = "y" -> y [] a = "x" -> x [] a = "c" -> c]
    /\ ap_checked = FALSE
    /\ ap_answer = "none"
    /\ ap_outcome = "none"

IdleApplic ==
    /\ ap_pc = "idle"
    /\ ap_fx = <<>>
    /\ ap_source = <<>>
    /\ ap_checked = FALSE
    /\ ap_answer = "none"
    /\ ap_outcome = "none"

\* a caller asks is_applicable_to(datasource)
AskApplicable ==
    /\ ap_pc = "init"
    /\ ap_answer' = IsApplicableTo(ap_fx, ap_source)
    /\ ap_pc' = "asked"
    /\ UNCHANGED <<ap_fx, ap_source, ap_checked, ap_outcome>>
    /\ UNCHANGED restApplic

\* FeatureExtractor.ensure_applicable: raises FeatureDataMismatchException
\* when is_applicable_to is false
EnsureApplicable ==
    /\ ap_pc \in {"init", "asked"}
    /\ ap_outcome' = IF ~IsApplicableTo(ap_fx, ap_source) THEN "mismatch" ELSE "ok"
    /\ ap_checked' = TRUE
    /\ ap_pc' = "ensured"
    /\ UNCHANGED <<ap_fx, ap_source, ap_answer>>
    /\ UNCHANGED restApplic

\* FeatureExtractor.compute / ChannelwiseFastFilter.compute: allocate, run the
\* kernel, write-protect, return; neither asks is_applicable_to.  The opaque
\* kernel returns a block, or, on a source it does not fit, may raise an
\* error of its own.
Compute ==
    /\ \/ ap_pc \in {"init", "asked"}
       \/ ap_pc = "ensured" /\ ap_outcome = "ok"
    /\ \/ ap_outcome' = "block"
       \/ /\ ~IsApplicableTo(ap_fx, ap_source)
          /\ ap_outcome' = "kernel_error"
    /\ ap_pc' = "returned"
    /\ UNCHANGED <<ap_fx, ap_source, ap_checked, ap_answer>>
    /\ UNCHANGED restApplic

NextApplic ==
    \/ AskApplicable
    \/ EnsureApplicable
    \/ Compute

-----------------------------------------------------------------------------
(* The operator cache: FeatureExtractor.compute is wrapped in              *)
(* functools.lru_cache(), keyed by (self, input_roi).  The cache is a      *)
(* sequence of entries, least recently used first.  The caller asks for    *)
(* fresh regions one after the other and may at any time ask again for the *)
(* first region (HotKey) or for the region of the previous call, with the  *)
(* region object of the earlier call or with a new one of equal start and  *)
(* stop, and may try to write into the block a call returned.              *)

\* functools.lru_cache() called without arguments: maxsize defaults to 128
LruMaxSize == 128

\* how many distinct regions the caller asks for
NumKeys == 129

\* the operator and the region's value (start and stop) of a call
KeyAt(i) == <<"fx", i>>

\* a region object: its value and which object it is (0: the object of the
\* first call with that value, 1: another object)
RegionObject(i, obj) == [value |-> i, obj |-> obj]

RegionObjects == {0, 1}

\* a cache key that tells region objects apart
CacheKeyByReference(region) == <<"fx", region.value, region.obj>>

\* the cache key of a call: (self, input_roi), hashed and compared by value
CacheKey(region) == KeyAt(region.value)

SweepKeys == {KeyAt(i) : i \in 0..(NumKeys - 1)}

HotKey == KeyAt(0)

NoKey == <<"none", -1>>

NoValue == [op |-> "none", roi |-> -1, data |-> "none", writeable |-> FALSE]

\* the block the kernel (allocate_for + compute_into) produces for a key: a
\* freshly allocated array, writeable
KernelValue(key) == [op |-> key[1], roi |-> key[2], data |-> "kernel", writeable |-> TRUE]

\* a setflags that leaves the block as it is
SetFlagsIgnored(block, write) == block

\* out_features.setflags(write=False)
SetFlags(block, write) == [block EXCEPT !.writeable = write]

\* an assignment into the block by a caller: refused unless writeable
Written(block) == IF block.writeable THEN [block EXCEPT !.data = "caller"] ELSE block

\* a cache that never finds anything
LookupNothing(cache, key) == 0

\* position of the key's entry in the cache, 0 when it has none
Lookup(cache, key) ==
    IF \E i \in 1..Len(cache) : cache[i].key = key
    THEN CHOOSE i \in 1..Len(cache) : cache[i].key = key
    ELSE 0

RemoveAt(s, i) == SubSeq(s, 1, i - 1) \o SubSeq(s, i + 1, Len(s))

\* a hit moves the entry to the most recently used end
CacheAfterHit(cache, i) == Append(RemoveAt(cache, i), cache[i])

\* a miss that never drops an entry
CacheAfterMissUnbounded(cache, key, value) == Append(cache, [key |-> key, value |-> value])

\* a miss on a full cache drops the least recently used entry
CacheAfterMiss(cache, key, value) ==
    Append(IF Len(cache) >= LruMaxSize THEN Tail(cache) ELSE cache,
           [key |-> key, value |-> value])

InitCache ==
    /\ ca_cache = <<>>
    /\ ca_next = 0
    /\ ca_calls = [k \in SweepKeys |-> 0]
    /\ ca_first = [k \in SweepKeys |-> NoValue]
    /\ ca_since = {}
    /\ ca_last = [key |-> NoKey, value |-> NoValue, hit |-> FALSE, gap |-> -1,
                  obj |-> 0, wrote |-> "none"]

IdleCache ==
    /\ ca_cache = <<>>
    /\ ca_next = 0
    /\ ca_calls = <<>>
    /\ ca_first = <<>>
    /\ ca_since = {}
    /\ ca_last = [key |-> NoKey, value |-> NoValue, hit |-> FALSE, gap |-> -1,
                  obj |-> 0, wrote |-> "none"]

\* one call of the wrapped compute with a region object; gap is the number
\* of distinct other keys computed since the same region value was asked
\* for (-1 for a first call)
CacheCall(region, gap) ==
    LET key == KeyAt(region.value)
        i == Lookup(ca_cache, CacheKey(region))
        hit == i # 0
        value == IF hit THEN ca_cache[i].value ELSE SetFlags(KernelValue(key), FALSE)
    IN /\ ca_cache' = IF hit THEN CacheAfterHit(ca_cache, i)
                      ELSE CacheAfterMiss(ca_cache, CacheKey(region), value)
       /\ ca_calls' = IF hit THEN ca_calls ELSE [ca_calls EXCEPT ![key] = @ + 1]
       /\ ca_first' = IF ca_first[key] = NoValue
                      THEN [ca_first EXCEPT ![key] = value]
                      ELSE ca_first
       /\ ca_since' = IF key = HotKey THEN {} ELSE ca_since \cup {key}
       /\ ca_last' = [key |-> key, value |-> value, hit |-> hit, gap |-> gap,
                      obj |-> region.obj, wrote |-> "none"]

ComputeFresh ==
    /\ ca_next < NumKeys
    /\ CacheCall(RegionObject(ca_next, 0), -1)
    /\ ca_next' = ca_next + 1
    /\ UNCHANGED restCache

ComputeHotAgain ==
    /\ ca_next > 0
    /\ CacheCall(RegionObject(0, 1), Cardinality(ca_since))
    /\ UNCHANGED ca_next
    /\ UNCHANGED restCache

ComputeLastAgain ==
    /\ ca_last.key # NoKey
    /\ ca_last.key # HotKey
    /\ \E obj \in RegionObjects : CacheCall(RegionObject(ca_last.key[2], obj), 0)
    /\ UNCHANGED ca_next
    /\ UNCHANGED restCache

\* the caller assigns into the block the last call returned; the block is
\* the very object the cache holds for the key
CallerWrite ==
    /\ ca_last.key # NoKey
    /\ ca_last.wrote = "none"
    /\ ca_last' = [ca_last EXCEPT !.value = Written(@),
                                  !.wrote = IF ca_last.value.writeable
                                            THEN "written" ELSE "refused"]
    /\ ca_cache' = [i \in DOMAIN ca_cache |->
                       IF ca_cache[i].key = ca_last.key /\ ca_cache[i].value = ca_last.value
                       THEN [ca_cache[i] EXCEPT !.value = Written(@)]
                       ELSE ca_cache[i]]
    /\ UNCHANGED <<ca_next, ca_calls, ca_first, ca_since>>
    /\ UNCHANGED restCache

NextCache ==
    \/ ComputeFresh
    \/ ComputeHotAgain
    \/ ComputeLastAgain
    \/ CallerWrite

-----------------------------------------------------------------------------
(* Concurrent callers of the cached compute.  The lru_cache wrapper looks  *)
(* the key up, and on a miss runs the wrapped function outside of any lock *)
(* before it stores the result; each of these is one step of a thread.     *)

NumThreads == 2

NumRegions == 2

Threads == 1..NumThreads

RaceRegions == 1..NumRegions

\* what a thread does after its lookup: return the cached block or compute
AfterLookup(t, roi) == IF roi \in ra_cache THEN "done" ELSE "kernel"

InitRace ==
    /\ ra_pc = [t \in Threads |-> "idle"]
    /\ ra_roi = [t \in Threads |-> 0]
    /\ ra_cache = {}
    /\ ra_calls = [r \in RaceRegions |-> 0]

IdleRace ==
    /\ ra_pc = <<>>
    /\ ra_roi = <<>>
    /\ ra_cache = {}
    /\ ra_calls = <<>>

\* a thread enters compute(roi)
RaceCall(t, roi) ==
    /\ ra_pc[t] = "idle"
    /\ ra_pc' = [ra_pc EXCEPT ![t] = "lookup"]
    /\ ra_roi' = [ra_roi EXCEPT ![t] = roi]
    /\ UNCHANGED <<ra_cache, ra_calls>>
    /\ UNCHANGED restRace

\* the wrapper's cache lookup
RaceLookup(t) ==
    /\ ra_pc[t] = "lookup"
    /\ ra_pc' = [ra_pc EXCEPT ![t] = AfterLookup(t, ra_roi[t])]
    /\ UNCHANGED <<ra_roi, ra_cache, ra_calls>>
    /\ UNCHANGED restRace

\* the wrapped function body: allocate_for and compute_into
RaceKernel(t) ==
    /\ ra_pc[t] = "kernel"
    /\ ra_calls' = [ra_calls EXCEPT ![ra_roi[t]] = @ + 1]
    /\ ra_pc' = [ra_pc EXCEPT ![t] = "insert"]
    /\ UNCHANGED <<ra_roi, ra_cache>>
    /\ UNCHANGED restRace

\* the wrapper stores the result (a key stored meanwhile is kept)
RaceInsert(t) ==
    /\ ra_pc[t] = "insert"
    /\ ra_cache' = ra_cache \cup {ra_roi[t]}
    /\ ra_pc' = [ra_pc EXCEPT ![t] = "done"]
    /\ UNCHANGED <<ra_roi, ra_calls>>
    /\ UNCHANGED restRace

\* compute returns to the thread's caller
RaceReturn(t) ==
    /\ ra_pc[t] = "done"
    /\ ra_pc' = [ra_pc EXCEPT ![t] = "idle"]
    /\ ra_roi' = [ra_roi EXCEPT ![t] = 0]
    /\ UNCHANGED <<ra_cache, ra_calls>>
    /\ UNCHANGED restRace

NextRace ==
    \/ \E t \in Threads, roi \in RaceRegions : RaceCall(t, roi)
    \/ \E t \in Threads : RaceLookup(t)
    \/ \E t \in Threads : RaceKernel(t)
    \/ \E t \in Threads : RaceInsert(t)
    \/ \E t \in Threads : RaceReturn(t)

-----------------------------------------------------------------------------
(* Tiled against direct computation of a ChannelwiseFastFilter, on the     *)
(* axes x and c.  The kernel is opaque: the value of an output voxel is    *)
(* represented by the window of input voxels it was computed from (the     *)
(* kernel's reach around the voxel, cut off at the border of the block the *)
(* kernel was handed), the input channel and the feature index.            *)

\* bounds of the tiling specification
MaxSpan == 6
MaxTileX == 3

HaloAxes == {"x", "c"}

\* the kernel's reach in voxels on each side, set by sigma and window_size
KernelReaches == {1, HaloRadius, HaloRadius + 1}

HaloSource(nc) ==
    Region([a \in HaloAxes |-> 0],
           ("x" :> (2 * HaloRadius + MaxSpan)) @@ ("c" :> nc))

\* the block a tile writes nothing into yet
Unset == [window |-> <<0, 0>>, channel |-> -1, feature |-> -1]

\* self.preprocessor.compute(haloed_roi): the part of the requested region
\* that holds data of the source
PreprocessorData(source, haloed_roi) == Clamped(haloed_roi, source)

\* filter_fn on a block: the input window behind output voxel x
KernelWindow(block, x, reach) ==
    <<Max(block.start["x"], x - reach), Min(block.stop["x"], x + reach + 1)>>

\* ChannelwiseFastFilter.compute: the block, as a function of <<x, c>>
FastFilterCompute(fx, source, roi) ==
    LET slices == Split(roi, RoiStep(ShapeOf(roi), fx.axis_2d))
        halo == FastFilterHalo(AxesOf(roi), fx.axis_2d)
        SliceResult(roi_slice) ==
            LET haloed_roi == Enlarged(roi_slice, halo)
                channel_offset == roi_slice.start["c"] - roi.start["c"]
                source_data == PreprocessorData(source, haloed_roi)
                first_c == channel_offset * fx.multiplier
            IN [pos \in (roi_slice.start["x"]..(roi_slice.stop["x"] - 1))
                        \X (first_c..(first_c + fx.multiplier - 1)) |->
                   [window |-> KernelWindow(source_data, pos[1], fx.reach),
                    channel |-> roi_slice.start["c"],
                    feature |-> pos[2] - first_c]]
    IN Combine([k \in 1..Len(slices) |-> SliceResult(slices[k])])

InitHalo ==
    /\ ha_pc = "init"
    /\ ha_fx \in [reach : KernelReaches, multiplier : {1, 2}, axis_2d : {"z"}]
    /\ \E nc \in 1..MaxInChannels : ha_source = HaloSource(nc)
    /\ \E x0 \in {HaloRadius - 2, HaloRadius}, len \in 1..MaxSpan,
          c0 \in 0..(MaxInChannels - 1), c1 \in 1..MaxInChannels :
           /\ c0 < c1
           /\ ha_roi = Region(("x" :> x0) @@ ("c" :> c0), ("x" :> (x0 + len)) @@ ("c" :> c1))
           /\ Contains(ha_source, ha_roi)
    /\ \E bx \in 1..MaxTileX, bc \in 1..MaxInChannels :
           ha_tiles = Split(ha_roi, ("x" :> bx) @@ ("c" :> bc))
    /\ ha_idx = 1
    /\ ha_direct = <<>>
    /\ ha_merged = <<>>

IdleHalo ==
    /\ ha_pc = "idle"
    /\ ha_fx = <<>>
    /\ ha_source = <<>>
    /\ ha_roi = <<>>
    /\ ha_tiles = <<>>
    /\ ha_idx = 0
    /\ ha_direct = <<>>
    /\ ha_merged = <<>>

\* one compute call over the whole of R, and the buffer for the tiled run
HaloDirect ==
    /\ ha_pc = "init"
    /\ ha_direct' = FastFilterCompute(ha_fx, ha_source, ha_roi)
    /\ ha_merged' = [pos \in DOMAIN ha_direct' |-> Unset]
    /\ ha_pc' = "tiling"
    /\ UNCHANGED <<ha_fx, ha_source, ha_roi, ha_tiles, ha_idx>>
    /\ UNCHANGED restHalo

\* one compute call over the next tile, its block set into the buffer
HaloTile ==
    /\ ha_pc = "tiling"
    /\ ha_idx <= Len(ha_tiles)
    /\ ha_merged' = SetBlock(ha_merged, FastFilterCompute(ha_fx, ha_source, ha_tiles[ha_idx]))
    /\ ha_idx' = ha_idx + 1
    /\ UNCHANGED <<ha_pc, ha_fx, ha_source, ha_roi, ha_tiles, ha_direct>>
    /\ UNCHANGED restHalo

HaloFinish ==
    /\ ha_pc = "tiling"
    /\ ha_idx > Len(ha_tiles)
    /\ ha_pc' = "done"
    /\ UNCHANGED <<ha_fx, ha_source, ha_roi, ha_tiles, ha_idx, ha_direct, ha_merged>>
    /\ UNCHANGED restHalo

NextHalo ==
    \/ HaloDirect
    \/ HaloTile
    \/ HaloFinish

-----------------------------------------------------------------------------
(* Merging tile results into the output buffer: predictions.set(tile), in  *)
(* whatever order the tile results arrive.                                 *)

\* bounds of the merging specification
MaxMergeExtent == 3
MaxMergeBlock == 2

MergeAxes == {"y", "x"}

\* classifier.allocate_predictions(roi)
AllocatePredictions(roi) == [p \in Voxels(roi) |-> NoPrediction]

\* classifier.predict(tile): the prediction block of a tile, deterministic
\* in the tile
PredictTile(tile) == [p \in Voxels(tile) |-> [from |-> tile.start, at |-> p]]

\* the buffer after the tiles' results were set in the order of the sequence
RECURSIVE MergedInOrder(_, _)
MergedInOrder(buffer, tiles) ==
    IF Len(tiles) = 0 THEN buffer
    ELSE MergedInOrder(SetBlock(buffer, PredictTile(Head(tiles))), Tail(tiles))

InitMerge ==
    /\ \E shape \in [MergeAxes -> 1..MaxMergeExtent] :
           me_roi = ToInterval(shape, [a \in MergeAxes |-> 0])
    /\ \E block \in [MergeAxes -> 1..MaxMergeBlock] : me_tiles = Split(me_roi, block)
    /\ me_merged = {}
    /\ me_shuffled = FALSE
    /\ me_buffer = AllocatePredictions(me_roi)

IdleMerge ==
    /\ me_roi = <<>>
    /\ me_tiles = <<>>
    /\ me_merged = {}
    /\ me_shuffled = FALSE
    /\ me_buffer = <<>>

\* collect_predictions / do_predict: predictions.set(prediction_tile)
MergeTile(k) ==
    /\ k \in 1..Len(me_tiles)
    /\ k \notin me_merged
    /\ me_buffer' = SetBlock(me_buffer, PredictTile(me_tiles[k]))
    /\ me_merged' = me_merged \cup {k}
    /\ me_shuffled' = (me_shuffled \/ \E j \in 1..(k - 1) : j \notin me_merged)
    /\ UNCHANGED <<me_roi, me_tiles>>
    /\ UNCHANGED restMerge

NextMerge == \E k \in 1..Len(me_tiles) : MergeTile(k)

-----------------------------------------------------------------------------
(* The benchmark's orchestration: the same classifier, data source and     *)
(* region are run with each backend in turn; every run starts from a       *)
(* freshly allocated predictions buffer.  The distributed backend's        *)
(* TaskOrchestrator is lazyflow code: a coordinator streams tiles to the   *)
(* workers and hands every result to the collector as it arrives.  The     *)
(* server's predictions request runs last, on the same region: its tiles   *)
(* are batched by their hash and every batch goes to an executor of its    *)
(* own.                                                                    *)

\* bounds of the orchestration specification
MaxOrchExtent == 4
MaxOrchTile == 2
MaxWorkers == 3

Backends == <<"thread-pool", "process-pool", "mpi">>

BackendSet == {Backends[i] : i \in 1..Len(Backends)}

\* the runs of the model, in their order
Orchestrations == Backends \o <<"server">>

\* what hash(slc) may be for the k-th tile
Hashes == {"index", "constant", "square", "triple"}

HashOf(h, k) ==
    CASE h = "index" -> k
      [] h = "constant" -> 0
      [] h = "square" -> k * k
      [] h = "triple" -> 3 * k

\* batch_idx = hash(slc) % args.num_workers
BatchIdx(h, k, num_workers) == HashOf(h, k) % num_workers

\* slc_batches.items(): a batch per index that occurs, in the order in which
\* the indices occurred first, each batch in the order of all_slices
SlcBatches(num_slices, num_workers, h) ==
    LET used == {BatchIdx(h, k, num_workers) : k \in 1..num_slices}
        first(i) == CHOOSE k \in 1..num_slices :
                        /\ BatchIdx(h, k, num_workers) = i
                        /\ \A j \in 1..(k - 1) : BatchIdx(h, j, num_workers) # i
        rank(i) == Cardinality({j \in used : first(j) < first(i)}) + 1
        InBatch(i, k) == BatchIdx(h, k, num_workers) = i
    IN [r \in 1..Cardinality(used) |->
           LET i == CHOOSE i \in used : rank(i) = r
           IN SelectSeq([k \in 1..num_slices |-> k], LAMBDA k : InBatch(i, k))]

\* a batch size that rounds down
BatchSizeFloor(num_slices, num_workers) == Max(1, num_slices \div num_workers)

\* batch_size = math.ceil(len(all_slices) / args.num_workers)
BatchSize(num_slices, num_workers) == CeilDiv(num_slices, num_workers)

\* batching that drops a last batch shorter than batch_size
BatchesWithoutRemainder(num_slices, batch_size) ==
    [b \in 1..(num_slices \div batch_size) |->
        [i \in 1..batch_size |-> (b - 1) * batch_size + i]]

\* batching that deals the slices out to the batches in turn
BatchesStrided(num_slices, batch_size) ==
    LET num_batches == CeilDiv(num_slices, batch_size)
    IN [b \in 1..num_batches |->
           [i \in 1..Cardinality({k \in 1..num_slices : (k - 1) % num_batches = b - 1}) |->
               (i - 1) * num_batches + b]]

\* all_slices[start : start + batch_size] for start in range(0, len, batch_size)
Batches(num_slices, batch_size) ==
    [b \in 1..CeilDiv(num_slices, batch_size) |->
        [i \in 1..(Min(b * batch_size, num_slices) - (b - 1) * batch_size) |->
            (b - 1) * batch_size + i]]

\* tiles a worker is busy with
InWorker(states) == {k \in DOMAIN or_state : or_state[k] \in states}

\* the lowest tile not yet handed to a worker
FirstQueued == CHOOSE k \in InWorker({"queued"}) : \A j \in InWorker({"queued"}) : k <= j

\* the state a run starts from
StartRun(backend) ==
    /\ or_backend' = backend
    /\ or_pc' = "start"
    /\ or_state' = [k \in 1..Len(or_tiles) |-> "queued"]
    /\ or_batches' = <<>>
    /\ or_batch_state' = <<>>
    /\ or_next' = 1
    /\ or_predictions' = <<>>
    /\ or_computed' = [k \in 1..Len(or_tiles) |-> 0]
    /\ or_merged' = <<>>
    /\ or_ranks' = <<>>
    /\ or_assigned' = [k \in 1..Len(or_tiles) |-> 0]

\* the script ends: normally ("finished") or with an exception ("error")
EndRun(outcome) ==
    /\ or_pc' = outcome
    /\ or_runs' = [or_runs EXCEPT ![or_backend] =
                       [outcome |-> outcome, predictions |-> or_predictions]]

InitOrch ==
    /\ or_pc = "start"
    /\ or_backend = Backends[1]
    /\ or_workers \in 1..MaxWorkers
    /\ \E len \in 1..MaxOrchExtent : or_roi = ToInterval([x |-> len], [x |-> 0])
    /\ \E w \in 1..MaxOrchTile : or_tiles = Split(or_roi, [x |-> w])
    /\ \E failing \in 0..Len(or_tiles) : or_fail = {failing} \ {0}
    /\ or_state = [k \in 1..Len(or_tiles) |-> "queued"]
    /\ or_batches = <<>>
    /\ or_batch_state = <<>>
    /\ or_next = 1
    /\ or_predictions = <<>>
    /\ or_runs = [b \in BackendSet \cup {"server"} |-> [outcome |-> "none", predictions |-> <<>>]]
    /\ or_computed = [k \in 1..Len(or_tiles) |-> 0]
    /\ or_merged = <<>>
    /\ or_ranks = <<>>
    /\ or_assigned = [k \in 1..Len(or_tiles) |-> 0]

IdleOrch ==
    /\ or_pc = "idle"
    /\ or_backend = "none"
    /\ or_workers = 0
    /\ or_roi = <<>>
    /\ or_tiles = <<>>
    /\ or_fail = {}
    /\ or_state = <<>>
    /\ or_batches = <<>>
    /\ or_batch_state = <<>>
    /\ or_next = 0
    /\ or_predictions = <<>>
    /\ or_runs = <<>>
    /\ or_computed = <<>>
    /\ or_merged = <<>>
    /\ or_ranks = <<>>
    /\ or_assigned = <<>>

\* predictions = classifier.allocate_predictions(...): the buffer of the
\* run, before the branch of the backend is entered
Allocate ==
    /\ or_pc = "start"
    /\ or_pc' = "allocated"
    /\ or_predictions' = AllocatePredictions(or_roi)
    /\ UNCHANGED <<or_backend, or_workers, or_roi, or_tiles, or_fail, or_state, or_batches,
                   or_batch_state, or_next, or_runs>>
    /\ UNCHANGED <<or_computed, or_merged>>
    /\ UNCHANGED <<or_ranks, or_assigned>>
    /\ UNCHANGED restOrch

\* the branch of the backend hands the tiles to its workers: one task per
\* tile (thread-pool), the stream of tiles (distributed), the batches
\* (process-pool), the batches by hash (server)
Submit ==
    /\ or_pc = "allocated"
    /\ or_pc' = "running"
    /\ or_batches' \in
           CASE or_backend = "process-pool" ->
                    {Batches(Len(or_tiles), BatchSize(Len(or_tiles), or_workers))}
             [] or_backend = "server" ->
                    {SlcBatches(Len(or_tiles), or_workers, h) : h \in Hashes}
             [] OTHER -> {<<>>}
    /\ or_batch_state' = [b \in DOMAIN or_batches' |-> "queued"]
    /\ or_ranks' = IF or_backend = "mpi" THEN [w \in 1..or_workers |-> "waiting"] ELSE <<>>
    /\ UNCHANGED <<or_backend, or_workers, or_roi, or_tiles, or_fail, or_state,
                   or_next, or_predictions, or_runs>>
    /\ UNCHANGED <<or_computed, or_merged>>
    /\ UNCHANGED or_assigned
    /\ UNCHANGED restOrch

\* a tile is handed to a free worker, tiles in submission order
StartTile(backend, busy) ==
    /\ or_pc = "running"
    /\ or_backend = backend
    /\ InWorker({"queued"}) # {}
    /\ Cardinality(InWorker(busy)) < or_workers
    /\ or_state' = [or_state EXCEPT ![FirstQueued] = "running"]
    /\ UNCHANGED <<or_pc, or_backend, or_workers, or_roi, or_tiles, or_fail, or_batches,
                   or_batch_state, or_next, or_predictions, or_runs>>
    /\ UNCHANGED <<or_computed, or_merged>>
    /\ UNCHANGED <<or_ranks, or_assigned>>
    /\ UNCHANGED restOrch

\* classifier.predict on the tile returns a block or raises
PredictStep(backend, k) ==
    /\ or_pc = "running"
    /\ or_backend = backend
    /\ or_state[k] = "running"
    /\ or_state' = [or_state EXCEPT ![k] = IF k \in or_fail THEN "failed" ELSE "predicted"]
    /\ UNCHANGED <<or_pc, or_backend, or_workers, or_roi, or_tiles, or_fail, or_batches,
                   or_batch_state, or_next, or_predictions, or_runs>>
    /\ or_computed' = [or_computed EXCEPT ![k] = @ + 1]
    /\ UNCHANGED or_merged
    /\ UNCHANGED <<or_ranks, or_assigned>>
    /\ UNCHANGED restOrch

\* predictions.set(pred_tile)
SetStep(backend, k) ==
    /\ or_pc = "running"
    /\ or_backend = backend
    /\ or_state[k] = "predicted"
    /\ or_predictions' = SetBlock(or_predictions, PredictTile(or_tiles[k]))
    /\ or_state' = [or_state EXCEPT ![k] = "set"]
    /\ UNCHANGED <<or_pc, or_backend, or_workers, or_roi, or_tiles, or_fail, or_batches,
                   or_batch_state, or_next, or_runs>>
    /\ or_merged' = Append(or_merged, k)
    /\ UNCHANGED or_computed
    /\ UNCHANGED <<or_ranks, or_assigned>>
    /\ UNCHANGED restOrch

\* thread-pool: a free thread takes the next submitted tile; a thread is
\* busy until its do_predict has returned or raised
ThreadPoolStart == StartTile("thread-pool", {"running", "predicted", "setting"})

\* thread-pool, do_predict: classifier.predict; an exception ends the task
\* and stays in its future
ThreadPoolPredict(k) == PredictStep("thread-pool", k)

\* thread-pool, do_predict: predictions.set(pred_tile) is entered; the
\* thread now writes the voxels of the tile's region
ThreadPoolBeginSet(k) ==
    /\ or_pc = "running"
    /\ or_backend = "thread-pool"
    /\ or_state[k] = "predicted"
    /\ or_state' = [or_state EXCEPT ![k] = "setting"]
    /\ UNCHANGED <<or_pc, or_backend, or_workers, or_roi, or_tiles, or_fail, or_batches,
                   or_batch_state, or_next, or_predictions, or_runs>>
    /\ UNCHANGED <<or_computed, or_merged>>
    /\ UNCHANGED <<or_ranks, or_assigned>>
    /\ UNCHANGED restOrch

\* thread-pool, do_predict: predictions.set(pred_tile) returns
ThreadPoolEndSet(k) ==
    /\ or_pc = "running"
    /\ or_backend = "thread-pool"
    /\ or_state[k] = "setting"
    /\ or_predictions' = SetBlock(or_predictions, PredictTile(or_tiles[k]))
    /\ or_state' = [or_state EXCEPT ![k] = "set"]
    /\ or_merged' = Append(or_merged, k)
    /\ UNCHANGED <<or_pc, or_backend, or_workers, or_roi, or_tiles, or_fail, or_batches,
                   or_batch_state, or_next, or_runs>>
    /\ UNCHANGED or_computed
    /\ UNCHANGED <<or_ranks, or_assigned>>
    /\ UNCHANGED restOrch

\* an executor shut down without waiting for its tasks
PoolShutDownWithoutWaiting == TRUE

\* ThreadPoolExecutor.__exit__: shutdown(wait=True), every task has ended
PoolShutDown == \A k \in DOMAIN or_state : or_state[k] \in {"set", "failed"}

\* thread-pool: the with block is left once every task has ended; no
\* future is looked at, the script runs on to its end
ThreadPoolExit ==
    /\ or_pc = "running"
    /\ or_backend = "thread-pool"
    /\ PoolShutDown
    /\ EndRun("finished")
    /\ UNCHANGED <<or_backend, or_workers, or_roi, or_tiles, or_fail, or_state, or_batches,
                   or_batch_state, or_next, or_predictions>>
    /\ UNCHANGED <<or_computed, or_merged>>
    /\ UNCHANGED <<or_ranks, or_assigned>>
    /\ UNCHANGED restOrch

\* a batch in a worker process: the batch's tiles one after the other; the
\* first exception ends the batch
BatchPredict(backend, b) ==
    /\ or_pc = "running"
    /\ or_backend = backend
    /\ b \in DOMAIN or_batches
    /\ or_batch_state[b] = "queued"
    /\ LET batch == or_batches[b]
           failing == {i \in 1..Len(batch) : batch[i] \in or_fail}
           stop == IF failing = {} THEN Len(batch) + 1
                   ELSE CHOOSE i \in failing : \A j \in failing : i <= j
       IN /\ or_state' = [k \in DOMAIN or_state |->
                             IF \E i \in 1..Len(batch) : batch[i] = k /\ i < stop THEN "predicted"
                             ELSE IF \E i \in 1..Len(batch) : batch[i] = k /\ i = stop THEN "failed"
                             ELSE or_state[k]]
          /\ or_computed' = [k \in DOMAIN or_computed |->
                                IF \E i \in 1..Len(batch) : batch[i] = k /\ i <= stop
                                THEN or_computed[k] + 1 ELSE or_computed[k]]
          /\ or_batch_state' = [or_batch_state EXCEPT ![b] =
                                   IF failing = {} THEN "done" ELSE "failed"]
    /\ UNCHANGED <<or_pc, or_backend, or_workers, or_roi, or_tiles, or_fail, or_batches,
                   or_next, or_predictions, or_runs>>
    /\ UNCHANGED or_merged
    /\ UNCHANGED <<or_ranks, or_assigned>>
    /\ UNCHANGED restOrch

\* main loop: the results of the next batch, every result set
BatchCollect(backend) ==
    /\ or_pc = "running"
    /\ or_backend = backend
    /\ or_next <= Len(or_batches)
    /\ or_batch_state[or_next] = "done"
    /\ LET batch == or_batches[or_next]
       IN /\ or_predictions' =
                 MergedInOrder(or_predictions, [i \in 1..Len(batch) |-> or_tiles[batch[i]]])
          /\ or_state' = [k \in DOMAIN or_state |->
                             IF \E i \in 1..Len(batch) : batch[i] = k THEN "set" ELSE or_state[k]]
    /\ or_merged' = or_merged \o or_batches[or_next]
    /\ or_next' = or_next + 1
    /\ UNCHANGED <<or_pc, or_backend, or_workers, or_roi, or_tiles, or_fail, or_batches,
                   or_batch_state, or_runs>>
    /\ UNCHANGED or_computed
    /\ UNCHANGED <<or_ranks, or_assigned>>
    /\ UNCHANGED restOrch

\* main loop: taking the results of a failed batch raises its exception
BatchRaise(backend) ==
    /\ or_pc = "running"
    /\ or_backend = backend
    /\ or_next <= Len(or_batches)
    /\ or_batch_state[or_next] = "failed"
    /\ EndRun("error")
    /\ UNCHANGED <<or_backend, or_workers, or_roi, or_tiles, or_fail, or_state, or_batches,
                   or_batch_state, or_next, or_predictions>>
    /\ UNCHANGED <<or_computed, or_merged>>
    /\ UNCHANGED <<or_ranks, or_assigned>>
    /\ UNCHANGED restOrch

\* main loop: the results of every batch were taken
BatchExit(backend) ==
    /\ or_pc = "running"
    /\ or_backend = backend
    /\ or_next > Len(or_batches)
    /\ EndRun("finished")
    /\ UNCHANGED <<or_backend, or_workers, or_roi, or_tiles, or_fail, or_state, or_batches,
                   or_batch_state, or_next, or_predictions>>
    /\ UNCHANGED <<or_computed, or_merged>>
    /\ UNCHANGED <<or_ranks, or_assigned>>
    /\ UNCHANGED restOrch

\* process-pool, do_predict in a worker process
ProcessPoolBatch(b) == BatchPredict("process-pool", b)

\* process-pool, main loop: the next batch of executor.map, every result set
ProcessPoolCollect == BatchCollect("process-pool")

\* process-pool, main loop: executor.map raises the exception of the batch
ProcessPoolRaise == BatchRaise("process-pool")

\* process-pool: the loop over executor.map is through
ProcessPoolExit == BatchExit("process-pool")

\* server, do_worker_predict in the process of the batch's executor
ServerWorkerPredict(b) == BatchPredict("server", b)

\* server, do_predictions: future.result() of the next batch, every result set
ServerCollect == BatchCollect("server")

\* server, do_predictions: future.result() raises the exception of the batch
ServerRaise == BatchRaise("server")

\* server, do_predictions: every future was taken, the response is built
ServerReturn == BatchExit("server")

\* distributed: the coordinator sends the next tile of the stream to a
\* worker rank that waits for one (the ranks being interchangeable, the
\* lowest waiting one)
MpiSend(w) ==
    /\ or_pc = "running"
    /\ or_backend = "mpi"
    /\ InWorker({"queued"}) # {}
    /\ or_ranks[w] = "waiting"
    /\ \A v \in 1..(w - 1) : or_ranks[v] # "waiting"
    /\ or_state' = [or_state EXCEPT ![FirstQueued] = "running"]
    /\ or_assigned' = [or_assigned EXCEPT ![FirstQueued] = w]
    /\ or_ranks' = [or_ranks EXCEPT ![w] = "computing"]
    /\ UNCHANGED <<or_pc, or_backend, or_workers, or_roi, or_tiles, or_fail, or_batches,
                   or_batch_state, or_next, or_predictions, or_runs>>
    /\ UNCHANGED <<or_computed, or_merged>>
    /\ UNCHANGED restOrch

\* distributed, do_predict on the worker rank the tile was sent to: the
\* result is sent back and the rank waits for the next message
MpiWork(k) ==
    /\ or_pc = "running"
    /\ or_backend = "mpi"
    /\ or_state[k] = "running"
    /\ or_state' = [or_state EXCEPT ![k] = IF k \in or_fail THEN "failed" ELSE "predicted"]
    /\ or_ranks' = [or_ranks EXCEPT ![or_assigned[k]] =
                        IF k \in or_fail THEN "failed" ELSE "waiting"]
    /\ or_computed' = [or_computed EXCEPT ![k] = @ + 1]
    /\ UNCHANGED <<or_pc, or_backend, or_workers, or_roi, or_tiles, or_fail, or_batches,
                   or_batch_state, or_next, or_predictions, or_runs>>
    /\ UNCHANGED <<or_merged, or_assigned>>
    /\ UNCHANGED restOrch

\* distributed: the stream is exhausted and every result collected; a
\* waiting worker rank is signaled to stop and leaves its loop
MpiStop(w) ==
    /\ or_pc = "running"
    /\ or_backend = "mpi"
    /\ \A k \in DOMAIN or_state : or_state[k] = "set"
    /\ or_ranks[w] = "waiting"
    /\ or_ranks' = [or_ranks EXCEPT ![w] = "stopped"]
    /\ UNCHANGED <<or_pc, or_backend, or_workers, or_roi, or_tiles, or_fail, or_state,
                   or_batches, or_batch_state, or_next, or_predictions, or_runs>>
    /\ UNCHANGED <<or_computed, or_merged, or_assigned>>
    /\ UNCHANGED restOrch

\* an orchestrator that returns without stopping its workers
WorkersLeftRunning == TRUE

\* distributed: every worker rank has left its loop
AllWorkersStopped == \A w \in DOMAIN or_ranks : or_ranks[w] = "stopped"

\* distributed, collect_predictions on the coordinator
MpiCollect(k) == SetStep("mpi", k)

\* distributed: a failed tile aborts the run
MpiAbort ==
    /\ or_pc = "running"
    /\ or_backend = "mpi"
    /\ \E k \in DOMAIN or_state : or_state[k] = "failed"
    /\ EndRun("error")
    /\ UNCHANGED <<or_backend, or_workers, or_roi, or_tiles, or_fail, or_state, or_batches,
                   or_batch_state, or_next, or_predictions>>
    /\ UNCHANGED <<or_computed, or_merged>>
    /\ UNCHANGED <<or_ranks, or_assigned>>
    /\ UNCHANGED restOrch

\* distributed: orchestrate returns once every result was collected
MpiExit ==
    /\ or_pc = "running"
    /\ or_backend = "mpi"
    /\ \A k \in DOMAIN or_state : or_state[k] = "set"
    /\ AllWorkersStopped
    /\ EndRun("finished")
    /\ UNCHANGED <<or_backend, or_workers, or_roi, or_tiles, or_fail, or_state, or_batches,
                   or_batch_state, or_next, or_predictions>>
    /\ UNCHANGED <<or_computed, or_merged>>
    /\ UNCHANGED <<or_ranks, or_assigned>>
    /\ UNCHANGED restOrch

\* the script is started again with the next backend; the request to the
\* server comes last
NextRun ==
    /\ or_pc \in {"finished", "error"}
    /\ \E i \in 1..(Len(Orchestrations) - 1) :
           /\ Orchestrations[i] = or_backend
           /\ StartRun(Orchestrations[i + 1])
    /\ UNCHANGED <<or_workers, or_roi, or_tiles, or_fail, or_runs>>
    /\ UNCHANGED restOrch

NextOrch ==
    \/ Allocate
    \/ Submit
    \/ ThreadPoolStart
    \/ \E k \in DOMAIN or_state : ThreadPoolPredict(k)
    \/ \E k \in DOMAIN or_state : ThreadPoolBeginSet(k)
    \/ \E k \in DOMAIN or_state : ThreadPoolEndSet(k)
    \/ ThreadPoolExit
    \/ \E b \in DOMAIN or_batches : ProcessPoolBatch(b)
    \/ ProcessPoolCollect
    \/ ProcessPoolRaise
    \/ ProcessPoolExit
    \/ \E w \in DOMAIN or_ranks : MpiSend(w)
    \/ \E w \in DOMAIN or_ranks : MpiStop(w)
    \/ \E k \in DOMAIN or_state : MpiWork(k)
    \/ \E k \in DOMAIN or_state : MpiCollect(k)
    \/ MpiAbort
    \/ MpiExit
    \/ \E b \in DOMAIN or_batches : ServerWorkerPredict(b)
    \/ ServerCollect
    \/ ServerRaise
    \/ ServerReturn
    \/ NextRun

-----------------------------------------------------------------------------
(* The process-pool branch's batching, for every length of the tile list   *)
(* and every worker count.                                                 *)

\* bounds of the batching specification
MaxSlices == 8
MaxBatchWorkers == 5

InitBatch ==
    /\ ba_pc = "init"
    /\ ba_slices \in 0..MaxSlices
    /\ ba_workers \in 1..MaxBatchWorkers
    /\ ba_batch_size = 0
    /\ ba_batches = <<>>
    /\ ba_outcome = "none"

IdleBatch ==
    /\ ba_pc = "idle"
    /\ ba_slices = 0
    /\ ba_workers = 0
    /\ ba_batch_size = 0
    /\ ba_batches = <<>>
    /\ ba_outcome = "none"

\* batch_size = math.ceil(len(all_slices) / args.num_workers)
ComputeBatchSize ==
    /\ ba_pc = "init"
    /\ ba_batch_size' = BatchSize(ba_slices, ba_workers)
    /\ ba_pc' = "sized"
    /\ UNCHANGED <<ba_slices, ba_workers, ba_batches, ba_outcome>>
    /\ UNCHANGED restBatch

\* batches = [... for start in range(0, len(all_slices), batch_size)];
\* range raises ValueError on a step of zero
BuildBatches ==
    /\ ba_pc = "sized"
    /\ IF ba_batch_size = 0
       THEN ba_outcome' = "ValueError" /\ UNCHANGED ba_batches
       ELSE ba_outcome' = "ok" /\ ba_batches' = Batches(ba_slices, ba_batch_size)
    /\ ba_pc' = "done"
    /\ UNCHANGED <<ba_slices, ba_workers, ba_batch_size>>
    /\ UNCHANGED restBatch

NextBatch ==
    \/ ComputeBatchSize
    \/ BuildBatches

-----------------------------------------------------------------------------
(* Annotations: every way of constructing one ends in Annotation.__init__, *)
(* which compares the annotation's region with the raw dataset's region.   *)
(* Regions have the axes x and c here; an annotation's array is scalar     *)
(* data, one channel deep, except for what interpolate_from_points is      *)
(* handed, which checks the channel extent itself.                         *)

\* bounds of the annotation specification
MaxRawX == 2
MaxRawC == 1
MaxAnnotations == 2

AnnotAxes == {"x", "c"}

\* the coordinates a caller may name: one step beyond the largest raw
\* dataset on both sides
AnnotXs == (0 - 1)..(MaxRawX + 1)

AnnotCs == 0..MaxRawC

\* a bounds check that accepts every region that touches the raw dataset
InBoundsOverlapping(raw_roi, annotation_roi) == ~Disjoint(raw_roi, annotation_roi)

\* raw_data.roi.contains(self.roi)
InBounds(raw_roi, annotation_roi) == Contains(raw_roi, annotation_roi)

InitAnnot ==
    /\ \E ch \in 1..MaxRawC :
           an_raw = ToInterval([x |-> MaxRawX, c |-> ch], [x |-> 0, c |-> 0])
    /\ an_annotations = {}
    /\ an_last = [via |-> "none", roi |-> <<>>, outcome |-> "none"]

IdleAnnot ==
    /\ an_raw = <<>>
    /\ an_annotations = {}
    /\ an_last = [via |-> "none", roi |-> <<>>, outcome |-> "none"]

\* Annotation.__init__: the annotation exists only if the check passes
AnnotationInit(via, roi) ==
    IF InBounds(an_raw, roi)
    THEN /\ an_annotations' = an_annotations \cup {roi}
         /\ an_last' = [via |-> via, roi |-> roi, outcome |-> "annotation"]
    ELSE /\ an_annotations' = an_annotations
         /\ an_last' = [via |-> via, roi |-> roi, outcome |-> "AnnotationOutOfBounds"]

\* Annotation(arr, axiskeys=..., location=..., color=..., raw_data=...)
Construct(width, location) ==
    /\ Cardinality(an_annotations) < MaxAnnotations
    /\ AnnotationInit("direct", ToInterval([x |-> width, c |-> 1], location))
    /\ UNCHANGED an_raw
    /\ UNCHANGED restAnnot

\* annotation.rebuild(arr, axiskeys, location): location defaults to the
\* annotation's own
Rebuild(annotation, width, location) ==
    /\ annotation \in an_annotations
    /\ Cardinality(an_annotations) < MaxAnnotations
    /\ AnnotationInit("rebuild", ToInterval([x |-> width, c |-> 1], location))
    /\ UNCHANGED an_raw
    /\ UNCHANGED restAnnot

\* Point5D.min_coords / max_coords of the voxels
MinCoords(voxels) ==
    [a \in AnnotAxes |-> CHOOSE v \in {voxels[i][a] : i \in DOMAIN voxels} :
                             \A i \in DOMAIN voxels : v <= voxels[i][a]]

MaxCoords(voxels) ==
    [a \in AnnotAxes |-> CHOOSE v \in {voxels[i][a] : i \in DOMAIN voxels} :
                             \A i \in DOMAIN voxels : v >= voxels[i][a]]

\* scribbling_roi: from the least to one beyond the greatest coordinate
ScribblingRoi(voxels) ==
    Region(MinCoords(voxels), [a \in AnnotAxes |-> MaxCoords(voxels)[a] + 1])

\* Annotation.interpolate_from_points(color, voxels, raw_data)
InterpolateFromPoints(voxels) ==
    /\ Cardinality(an_annotations) < MaxAnnotations
    /\ LET scribbling_roi == ScribblingRoi(voxels)
       IN IF ShapeOf(scribbling_roi)["c"] # 1
          THEN /\ an_annotations' = an_annotations
               /\ an_last' = [via |-> "interpolate", roi |-> scribbling_roi,
                              outcome |-> "ValueError"]
          ELSE AnnotationInit("interpolate", scribbling_roi)
    /\ UNCHANGED an_raw
    /\ UNCHANGED restAnnot

NextAnnot ==
    \/ \E width \in 1..MaxRawX, x \in AnnotXs, ch \in AnnotCs :
           Construct(width, [x |-> x, c |-> ch])
    \/ \E annotation \in an_annotations, width \in 1..MaxRawX :
           \E location \in {annotation.start} \cup [x : AnnotXs, c : AnnotCs] :
               Rebuild(annotation, width, location)
    \/ \E x1 \in AnnotXs, c1 \in AnnotCs, dx \in {0, 1, MaxRawX}, dc \in {0, 1} :
           InterpolateFromPoints(<<[x |-> x1 + dx, c |-> c1 + dc], [x |-> x1, c |-> c1]>>)

-----------------------------------------------------------------------------
(* Annotation.get_feature_samples: the data tiles that overlap the         *)
(* annotated region are handed to a thread pool; make_samples crops the    *)
(* annotation and the tile's features to each other and appends the rows   *)
(* sampled at the true voxels to a shared list, which is concatenated once *)
(* the pool has shut down.  A sample row is named by the x position of its *)
(* voxel.                                                                  *)

\* bounds of the sampling specification
MaxSampleRaw == 3
MaxSampleTile == 2
MaxSampleChannels == 2

\* Interval5D.with_full_c(): the region over every channel of the source
WithFullC(roi, source) ==
    Region([a \in AxesOf(roi) |-> IF a = "c" THEN source.start["c"] ELSE roi.start[a]],
           [a \in AxesOf(roi) |-> IF a = "c" THEN source.stop["c"] ELSE roi.stop[a]])

\* get_tiles that also yields the tiles next to the annotated region
DataTilesAll(source, tile_shape, annotated_roi) == Split(source, tile_shape)

\* DataSourceSlice(raw_data).clamped(annotated_roi).get_tiles(clamp=False):
\* the data source's tiles that overlap the annotated region, uncropped
DataTiles(source, tile_shape, annotated_roi) ==
    SelectSeq(Split(source, tile_shape), LAMBDA tile : ~Disjoint(tile, annotated_roi))

\* the elements of a set of integers in ascending order
RECURSIVE Ascending(_)
Ascending(S) ==
    IF S = {} THEN <<>>
    ELSE LET least == CHOOSE v \in S : \A w \in S : v <= w
         IN <<least>> \o Ascending(S \ {least})

\* make_samples: the rows sampled from one data tile
SampleRows(data_tile) ==
    LET annotation_tile == Clamped(fs_roi, data_tile)
        feature_tile == Clamped(data_tile, WithFullC(annotation_tile, fs_raw))
    IN Ascending({x \in fs_mask :
                     /\ annotation_tile.start["x"] <= x /\ x < annotation_tile.stop["x"]
                     /\ feature_tile.start["x"] <= x /\ x < feature_tile.stop["x"]})

\* all_feature_samples[0].concatenate(*all_feature_samples[1:])
RECURSIVE Concatenate(_)
Concatenate(samples) ==
    IF Len(samples) = 0 THEN <<>> ELSE Head(samples) \o Concatenate(Tail(samples))

InitSamples ==
    /\ fs_pc = "running"
    /\ \E ch \in 1..MaxSampleChannels :
           fs_raw = ToInterval([x |-> MaxSampleRaw, c |-> ch], [x |-> 0, c |-> 0])
    /\ \E lo \in 0..(MaxSampleRaw - 1), hi \in 1..MaxSampleRaw :
           /\ lo < hi
           /\ fs_roi = Region([x |-> lo, c |-> 0], [x |-> hi, c |-> 1])
    /\ fs_mask \in SUBSET (fs_roi.start["x"]..(fs_roi.stop["x"] - 1))
    /\ fs_mask # {}
    /\ \E w \in 1..MaxSampleTile :
           fs_tiles = DataTiles(fs_raw, [x |-> w, c |-> fs_raw.stop["c"]],
                                WithFullC(fs_roi, fs_raw))
    /\ fs_fail \in SUBSET (1..Len(fs_tiles))
    /\ fs_state = [k \in 1..Len(fs_tiles) |-> "queued"]
    /\ fs_all = <<>>
    /\ fs_result = <<>>

IdleSamples ==
    /\ fs_pc = "idle"
    /\ fs_raw = <<>>
    /\ fs_roi = <<>>
    /\ fs_mask = {}
    /\ fs_tiles = <<>>
    /\ fs_fail = {}
    /\ fs_state = <<>>
    /\ fs_all = <<>>
    /\ fs_result = <<>>

\* make_samples in a pool thread: the tile's data is retrieved and its
\* features are computed; an exception ends the task and stays in its future
MakeSamplesCompute(k) ==
    /\ fs_pc = "running"
    /\ fs_state[k] = "queued"
    /\ fs_state' = [fs_state EXCEPT ![k] = IF k \in fs_fail THEN "failed" ELSE "computed"]
    /\ UNCHANGED <<fs_pc, fs_raw, fs_roi, fs_mask, fs_tiles, fs_fail, fs_all, fs_result>>
    /\ UNCHANGED restSamples

\* make_samples in a pool thread: all_feature_samples.append(feature_samples)
MakeSamplesAppend(k) ==
    /\ fs_pc = "running"
    /\ fs_state[k] = "computed"
    /\ fs_state' = [fs_state EXCEPT ![k] = "done"]
    /\ fs_all' = Append(fs_all, SampleRows(fs_tiles[k]))
    /\ UNCHANGED <<fs_pc, fs_raw, fs_roi, fs_mask, fs_tiles, fs_fail, fs_result>>
    /\ UNCHANGED restSamples

\* the with block is left once every task has ended, no future is looked
\* at; the samples gathered are concatenated (IndexError when there are none)
GetFeatureSamplesReturn ==
    /\ fs_pc = "running"
    /\ \A k \in DOMAIN fs_state : fs_state[k] \in {"done", "failed"}
    /\ IF fs_all = <<>>
       THEN /\ fs_pc' = "IndexError"
            /\ UNCHANGED fs_result
       ELSE /\ fs_pc' = "returned"
            /\ fs_result' = Concatenate(fs_all)
    /\ UNCHANGED <<fs_raw, fs_roi, fs_mask, fs_tiles, fs_fail, fs_state, fs_all>>
    /\ UNCHANGED restSamples

NextSamples ==
    \/ \E k \in DOMAIN fs_state : MakeSamplesCompute(k)
    \/ \E k \in DOMAIN fs_state : MakeSamplesAppend(k)
    \/ GetFeatureSamplesReturn

-----------------------------------------------------------------------------
(* Channel-wise computation.  ChannelwiseFilter.compute_into zips the      *)
(* pieces of the input region with the pieces of the output block;         *)
(* ChannelwiseFastFilter.compute enlarges every piece by the halo, takes   *)
(* the kernel's input from the preprocessor or from a Gaussian smoothing   *)
(* sub-operator, and cuts the kernel's output back to the piece.  Axes t,  *)
(* y, x and c; a voxel is a tuple <<t, y, x, c>>.                          *)

\* bounds of the channel-wise specification
MaxChanExtent == 2
MaxChanChannels == 2
MaxNesting == 3

ChanAxes == {"t", "y", "x", "c"}

\* the voxels of a region over ChanAxes as tuples <<t, y, x, c>>
Cells(R) ==
    (R.start["t"]..(R.stop["t"] - 1)) \X (R.start["y"]..(R.stop["y"] - 1))
        \X (R.start["x"]..(R.stop["x"] - 1)) \X (R.start["c"]..(R.stop["c"] - 1))

ChanSource ==
    Region([a \in ChanAxes |-> 0],
           [a \in ChanAxes |-> IF a = "c" THEN MaxChanChannels
                               ELSE IF a = "t" THEN MaxChanExtent + 1
                               ELSE 2 * HaloRadius + MaxChanExtent])

\* the input region starts at the source's corner or a halo away from it
ChanStarts ==
    {[a \in ChanAxes |-> 0],
     [a \in ChanAxes |-> IF a \in {"t", "c"} THEN 1 ELSE HaloRadius]}

\* ChannelwiseFilter.get_expected_shape
GetExpectedShape(fx, input_shape) ==
    Updated(input_shape, [c |-> ExpectedChannels(fx.multiplier, input_shape["c"])])

\* FeatureExtractor.compute: allocate_for(input_roi.shape).translated(input_roi.start)
AllocateFor(fx, input_roi) ==
    ToInterval(GetExpectedShape(fx, ShapeOf(input_roi)), input_roi.start)

\* compute_into: in_step
InStep(shape, axis_2d) ==
    LET step == Updated(shape, [c |-> 1, t |-> 1])
    IN IF axis_2d # "none" THEN Updated(step, (axis_2d :> 1)) ELSE step

\* an out_step that keeps one channel per piece
OutStepSingleChannel(in_step, channel_multiplier) == in_step

\* compute_into: out_step
OutStep(in_step, channel_multiplier) == Updated(in_step, [c |-> channel_multiplier])

\* a channel slot that ignores the multiplier
ChannelSlotUnscaled(channel_offset, channel_multiplier) == channel_offset

\* ChannelwiseFastFilter.compute: the first output channel of a sub-result
ChannelSlot(channel_offset, channel_multiplier) == channel_offset * channel_multiplier

\* feature_data.cut(roi_slice, c=All()): the piece's extent, the kernel's channels
FeatureDataCut(roi_slice, first_c, channel_multiplier) ==
    Region(Updated(roi_slice.start, [c |-> first_c]),
           Updated(roi_slice.stop, [c |-> first_c + channel_multiplier]))

\* per_channel_results[0].combine(per_channel_results[1:]): the region that
\* encloses every sub-result
CombinedRoi(blocks) ==
    Region([a \in ChanAxes |->
               CHOOSE v \in {blocks[k].start[a] : k \in DOMAIN blocks} :
                   \A k \in DOMAIN blocks : v <= blocks[k].start[a]],
           [a \in ChanAxes |->
               CHOOSE v \in {blocks[k].stop[a] : k \in DOMAIN blocks} :
                   \A k \in DOMAIN blocks : v >= blocks[k].stop[a]])

\* a smoothing sub-operator that inherits the presmoothing of its owner
GaussianSmoothingInheriting(fx) ==
    [kind |-> "GaussianSmoothing", multiplier |-> 1, axis_2d |-> fx.axis_2d,
     presmooth_sigma |-> fx.presmooth_sigma]

\* GaussianSmoothing(preprocessor, sigma=presmooth_sigma, axis_2d, window_size=3.5):
\* SigmaWindowFilter.__init__ leaves presmooth_sigma at its default
GaussianSmoothing(fx) ==
    [kind |-> "GaussianSmoothing", multiplier |-> 1, axis_2d |-> fx.axis_2d,
     presmooth_sigma |-> 0]

\* one running ChannelwiseFastFilter.compute call
Frame(fx, roi) ==
    [fx |-> fx, roi |-> roi,
     slices |-> Split(roi, RoiStep(ShapeOf(roi), fx.axis_2d)),
     idx |-> 1, source_data |-> "none", results |-> <<>>]

\* the writers of a block after sub-problem k wrote region out
Wrote(writers, out, k) ==
    [p \in (DOMAIN writers) \cup Cells(out) |->
        IF p \in Cells(out)
        THEN (IF p \in DOMAIN writers THEN writers[p] ELSE <<>>) \o <<k>>
        ELSE writers[p]]

InitChan ==
    /\ cw_pc = "start"
    /\ cw_path \in {"compute_into", "compute"}
    /\ cw_fx \in [kind : {"filter"}, multiplier : ChannelMultipliers,
                  axis_2d : {"none", "y"}, presmooth_sigma : {0, 1}]
    /\ cw_path = "compute_into" => cw_fx.presmooth_sigma = 0
    /\ cw_source = ChanSource
    /\ \E start \in ChanStarts, t, y, x \in 1..MaxChanExtent, c \in 1..MaxChanChannels :
           /\ cw_roi = ToInterval([a \in ChanAxes |->
                                      CASE a = "t" -> t [] a = "y" -> y
                                        [] a = "x" -> x [] OTHER -> c], start)
           /\ Contains(cw_source, cw_roi)
    /\ cw_stack = <<>>
    /\ cw_in = <<>>
    /\ cw_out = <<>>
    /\ cw_idx = 0
    /\ cw_block = <<>>
    /\ cw_writers = <<>>
    /\ cw_inputs = <<>>
    /\ cw_requests = {}

IdleChan ==
    /\ cw_pc = "idle"
    /\ cw_path = ""
    /\ cw_fx = <<>>
    /\ cw_source = <<>>
    /\ cw_roi = <<>>
    /\ cw_stack = <<>>
    /\ cw_in = <<>>
    /\ cw_out = <<>>
    /\ cw_idx = 0
    /\ cw_block = <<>>
    /\ cw_writers = <<>>
    /\ cw_inputs = <<>>
    /\ cw_requests = {}

\* FeatureExtractor.compute allocates the block; compute_into splits both sides
ComputeIntoBegin ==
    /\ cw_pc = "start"
    /\ cw_path = "compute_into"
    /\ LET out == AllocateFor(cw_fx, cw_roi)
           in_step == InStep(ShapeOf(cw_roi), cw_fx.axis_2d)
           out_step == OutStep(in_step, cw_fx.multiplier)
       IN /\ cw_block' = out
          /\ cw_in' = Split(cw_roi, in_step)
          /\ cw_out' = Split(out, out_step)
          /\ cw_writers' = [p \in Cells(out) |-> <<>>]
    /\ cw_idx' = 1
    /\ cw_pc' = "compute_into"
    /\ UNCHANGED <<cw_path, cw_fx, cw_source, cw_roi, cw_stack, cw_inputs, cw_requests>>
    /\ UNCHANGED restChan

\* one pair of the zip: self._compute_slice(slc_in, out=slc_out)
ComputeSlice ==
    /\ cw_pc = "compute_into"
    /\ cw_idx <= Min(Len(cw_in), Len(cw_out))
    /\ cw_writers' = Wrote(cw_writers, cw_out[cw_idx], cw_idx)
    /\ cw_inputs' = Append(cw_inputs, [roi |-> cw_in[cw_idx], data |-> "raw"])
    /\ cw_requests' = cw_requests \cup {cw_in[cw_idx]}
    /\ cw_idx' = cw_idx + 1
    /\ UNCHANGED <<cw_pc, cw_path, cw_fx, cw_source, cw_roi, cw_stack, cw_in, cw_out, cw_block>>
    /\ UNCHANGED restChan

\* the zip is exhausted: return out
ComputeIntoReturn ==
    /\ cw_pc = "compute_into"
    /\ cw_idx > Min(Len(cw_in), Len(cw_out))
    /\ cw_pc' = "done"
    /\ UNCHANGED <<cw_path, cw_fx, cw_source, cw_roi, cw_stack, cw_in, cw_out, cw_idx,
                   cw_block, cw_writers, cw_inputs, cw_requests>>
    /\ UNCHANGED restChan

\* ChannelwiseFastFilter.compute is entered: roi_step and the split
FastFilterCall ==
    /\ cw_pc = "start"
    /\ cw_path = "compute"
    /\ cw_stack' = <<Frame(cw_fx, cw_roi)>>
    /\ cw_in' = Frame(cw_fx, cw_roi).slices
    /\ cw_pc' = "compute"
    /\ UNCHANGED <<cw_path, cw_fx, cw_source, cw_roi, cw_out, cw_idx, cw_block, cw_writers,
                   cw_inputs, cw_requests>>
    /\ UNCHANGED restChan

\* presmooth_sigma > 0: gaussian_filter.compute(haloed_roi) is entered
FastFilterSmooth ==
    /\ cw_pc = "compute"
    /\ Len(cw_stack) < MaxNesting
    /\ LET top == cw_stack[Len(cw_stack)]
       IN /\ top.idx <= Len(top.slices)
          /\ top.fx.presmooth_sigma > 0
          /\ top.source_data = "none"
          /\ LET roi_slice == top.slices[top.idx]
                 haloed_roi == Enlarged(roi_slice, FastFilterHalo(ChanAxes, top.fx.axis_2d))
             IN cw_stack' = Append(cw_stack, Frame(GaussianSmoothing(top.fx), haloed_roi))
    /\ UNCHANGED <<cw_pc, cw_path, cw_fx, cw_source, cw_roi, cw_in, cw_out, cw_idx, cw_block,
                   cw_writers, cw_inputs, cw_requests>>
    /\ UNCHANGED restChan

\* the kernel runs on source_data and its output is cut back to the piece
FastFilterKernel ==
    /\ cw_pc = "compute"
    /\ LET n == Len(cw_stack)
           top == cw_stack[n]
       IN /\ top.idx <= Len(top.slices)
          /\ top.fx.presmooth_sigma > 0 => top.source_data # "none"
          /\ LET roi_slice == top.slices[top.idx]
                 haloed_roi == Enlarged(roi_slice, FastFilterHalo(ChanAxes, top.fx.axis_2d))
                 channel_offset == roi_slice.start["c"] - top.roi.start["c"]
                 source_data == IF top.fx.presmooth_sigma > 0 THEN top.source_data ELSE "raw"
                 result == FeatureDataCut(roi_slice,
                                          ChannelSlot(channel_offset, top.fx.multiplier),
                                          top.fx.multiplier)
             IN /\ cw_requests' = IF top.fx.presmooth_sigma > 0 THEN cw_requests
                                  ELSE cw_requests \cup {haloed_roi}
                /\ cw_stack' = [cw_stack EXCEPT ![n] =
                                   [top EXCEPT !.idx = top.idx + 1,
                                               !.source_data = "none",
                                               !.results = Append(top.results, result)]]
                /\ IF n = 1
                   THEN /\ cw_out' = Append(cw_out, result)
                        /\ cw_writers' = Wrote(cw_writers, result, top.idx)
                        /\ cw_inputs' = Append(cw_inputs, [roi |-> haloed_roi, data |-> source_data])
                   ELSE UNCHANGED <<cw_out, cw_writers, cw_inputs>>
    /\ UNCHANGED <<cw_pc, cw_path, cw_fx, cw_source, cw_roi, cw_in, cw_idx, cw_block>>
    /\ UNCHANGED restChan

\* every piece is done: combine the sub-results and return
FastFilterReturn ==
    /\ cw_pc = "compute"
    /\ LET n == Len(cw_stack)
           top == cw_stack[n]
       IN /\ top.idx > Len(top.slices)
          /\ IF n = 1
             THEN /\ cw_block' = CombinedRoi(top.results)
                  /\ cw_stack' = <<>>
                  /\ cw_pc' = "done"
             ELSE /\ cw_stack' = [SubSeq(cw_stack, 1, n - 1) EXCEPT ![n - 1].source_data = "smoothed"]
                  /\ UNCHANGED <<cw_block, cw_pc>>
    /\ UNCHANGED <<cw_path, cw_fx, cw_source, cw_roi, cw_in, cw_out, cw_idx, cw_writers,
                   cw_inputs, cw_requests>>
    /\ UNCHANGED restChan

NextChan ==
    \/ ComputeIntoBegin
    \/ ComputeSlice
    \/ ComputeIntoReturn
    \/ FastFilterCall
    \/ FastFilterSmooth
    \/ FastFilterKernel
    \/ FastFilterReturn

-----------------------------------------------------------------------------
(* The prediction chunk endpoint (ng_predict): the requested region is     *)
(* completed with the data source's channel axis, do_predictions returns   *)
(* the prediction block for it, and the body is the block converted to     *)
(* unsigned bytes and written out in [x, y, z, channel] Fortran order.     *)

\* bounds of the wire specification
MaxWireExtent == 2
MaxWireClasses == 2

\* raw("xyzc"): the order of the axes of the array that is written out
WireAxes == <<"x", "y", "z", "c">>

\* as_uint8(): one unsigned 8-bit value per scalar
ByteWidth == 8

\* DataSourceSlice(datasource, **roi.to_dict()).defined(): the axes the
\* request leaves open are taken from the data source, the others are kept
Defined(requested_roi, source) ==
    Region([a \in AxesOf(source) |-> IF a \in AxesOf(requested_roi)
                                     THEN requested_roi.start[a] ELSE source.start[a]],
           [a \in AxesOf(source) |-> IF a \in AxesOf(requested_roi)
                                     THEN requested_roi.stop[a] ELSE source.stop[a]])

\* classifier.allocate_predictions(backed_roi): the region of the block, one
\* channel per class
PredictionsRoi(backed_roi, num_classes) ==
    Region(Updated(backed_roi.start, [c |-> 0]), Updated(backed_roi.stop, [c |-> num_classes]))

\* the prediction of a voxel, scaled to 0..255 and beyond: a level that tells
\* the voxels of a chunk apart
Level(pos) == 1 + (pos[1] + 1) + 5 * (pos[2] + 1) + 25 * (pos[3] + 1) + 125 * pos[4]

\* as_uint8().raw("xyzc"): the array indexed by <<x, y, z, c>> from zero
RawXYZC(predictions) ==
    LET roi == predictions.roi
    IN [idx \in (0..(ShapeOf(roi)["x"] - 1)) \X (0..(ShapeOf(roi)["y"] - 1))
                 \X (0..(ShapeOf(roi)["z"] - 1)) \X (0..(ShapeOf(roi)["c"] - 1)) |->
           predictions.data[<<roi.start["x"] + idx[1], roi.start["y"] + idx[2],
                              roi.start["z"] + idx[3], roi.start["c"] + idx[4]>>] % (2 ^ ByteWidth)]

\* the extents of an array over WireAxes
WireShape(roi) == [n \in 1..Len(WireAxes) |-> ShapeOf(roi)[WireAxes[n]]]

\* tobytes("C"): the last axis varies fastest
RECURSIVE ToBytesC(_, _, _)
ToBytesC(array, shape, idx) ==
    IF Len(idx) = Len(shape) THEN <<array[idx]>>
    ELSE LET RECURSIVE Along(_)
             Along(i) == IF i >= shape[Len(idx) + 1] THEN <<>>
                         ELSE ToBytesC(array, shape, Append(idx, i)) \o Along(i + 1)
         IN Along(0)

\* tobytes("F"): the first axis varies fastest
RECURSIVE ToBytesF(_, _, _)
ToBytesF(array, shape, idx) ==
    IF Len(idx) = Len(shape) THEN <<array[idx]>>
    ELSE LET RECURSIVE Along(_)
             Along(i) == IF i >= shape[Len(shape) - Len(idx)] THEN <<>>
                         ELSE ToBytesF(array, shape, <<i>> \o idx) \o Along(i + 1)
         IN Along(0)

\* do_predictions: the block over the completed region
DoPredictions(requested_roi, source, num_classes) ==
    LET roi == PredictionsRoi(Defined(requested_roi, source), num_classes)
    IN [roi |-> roi,
        data |-> [pos \in (roi.start["x"]..(roi.stop["x"] - 1)) \X (roi.start["y"]..(roi.stop["y"] - 1))
                          \X (roi.start["z"]..(roi.stop["z"] - 1)) \X (roi.start["c"]..(roi.stop["c"] - 1))
                      |-> Level(pos)]]

InitWire ==
    /\ wi_pc = "request"
    /\ \E shape \in [{"x", "y", "z"} -> 1..MaxWireExtent], channels \in 1..2 :
           wi_source = Region([a \in {"x", "y", "z", "c"} |-> 0],
                              [a \in {"x", "y", "z", "c"} |-> IF a = "c" THEN channels ELSE shape[a]])
    /\ wi_classes \in 1..MaxWireClasses
    /\ \E start \in [{"x", "y", "z"} -> {0, 1}], shape \in [{"x", "y", "z"} -> 1..MaxWireExtent] :
           wi_request = ToInterval(shape, start)
    /\ wi_predictions = <<>>
    /\ wi_body = <<>>

IdleWire ==
    /\ wi_pc = "idle"
    /\ wi_source = <<>>
    /\ wi_classes = 0
    /\ wi_request = <<>>
    /\ wi_predictions = <<>>
    /\ wi_body = <<>>

\* ng_predict: do_predictions, then the body
NgPredict ==
    /\ wi_pc = "request"
    /\ wi_predictions' = DoPredictions(wi_request, wi_source, wi_classes)
    /\ wi_body' = ToBytesF(RawXYZC(wi_predictions'), WireShape(wi_predictions'.roi), <<>>)
    /\ wi_pc' = "served"
    /\ UNCHANGED <<wi_source, wi_classes, wi_request>>
    /\ UNCHANGED restWire

NextWire ==
    \/ NgPredict

-----------------------------------------------------------------------------
(* The storage collaborator's request to the data proxy                    *)
(* (_requests_from_data_proxy): one HTTP request, and on a 401 one token   *)
(* refresh followed by a nested call that may not refresh again.  The      *)
(* data proxy's answers and the outcome of the refresh are inputs.         *)

\* bounds of the data proxy specification
MaxProxyUrls == 3
MaxAttempts == 4

NotFound == 404
Unauthorized == 401

\* no status: the request raises instead of answering
Crashed == 0

\* the answers of the data proxy: a status code, or the request crashes
ProxyAnswers == {200, Unauthorized, 403, NotFound, 500, Crashed}

\* GlobalLogin.refresh_token: a token, an error value, or it raises
RefreshOutcomes == {"token", "error", "raises"}

\* a response.ok that also accepts client errors
OkBelowServerErrors(status) == status < 500

\* response.ok
Ok(status) == status < 400

\* a nested call that may refresh again
RefreshOn401Again == TRUE

\* the nested call after a refresh: refresh_on_401=False
RefreshOn401Nested == FALSE

\* the value the call returns for an answer that ends it
ProxyResult(answer) ==
    CASE answer = Crashed -> [kind |-> "ErrRequestCrashed", status |-> 0]
      [] answer = NotFound -> [kind |-> "FsFileNotFoundException", status |-> answer]
      [] ~Ok(answer) -> [kind |-> "ErrRequestCompletedAsFailure", status |-> answer]
      [] OTHER -> [kind |-> "content", status |-> answer]

InitProxy ==
    /\ px_pc = "call"
    /\ px_method \in {"get", "put", "delete"}
    /\ px_url \in 1..MaxProxyUrls
    /\ px_refresh_on_401 = TRUE
    /\ px_sent = <<>>
    /\ px_refreshes = <<>>
    /\ px_result = <<>>

IdleProxy ==
    /\ px_pc = "idle"
    /\ px_method = ""
    /\ px_url = 0
    /\ px_refresh_on_401 = FALSE
    /\ px_sent = <<>>
    /\ px_refreshes = <<>>
    /\ px_result = <<>>

\* _data_proxy_session.request(...) and the branches on its answer
DataProxyRequest(answer) ==
    /\ px_pc = "call"
    /\ Len(px_sent) < MaxAttempts
    /\ px_sent' = Append(px_sent, answer)
    /\ IF answer # Crashed /\ answer # NotFound /\ answer = Unauthorized /\ px_refresh_on_401
       THEN /\ px_pc' = "refresh"
            /\ UNCHANGED px_result
       ELSE /\ px_pc' = "returned"
            /\ px_result' = ProxyResult(answer)
    /\ UNCHANGED <<px_method, px_url, px_refresh_on_401, px_refreshes>>
    /\ UNCHANGED restProxy

\* GlobalLogin.refresh_token(stale_token=user_token) and what follows it
RefreshToken(outcome) ==
    /\ px_pc = "refresh"
    /\ px_refreshes' = Append(px_refreshes, outcome)
    /\ CASE outcome = "error" ->
                /\ px_result' = [kind |-> "refresh error", status |-> 0]
                /\ px_pc' = "returned"
                /\ UNCHANGED px_refresh_on_401
         [] outcome = "raises" ->
                /\ px_result' = [kind |-> "ErrRequestCrashed", status |-> 0]
                /\ px_pc' = "returned"
                /\ UNCHANGED px_refresh_on_401
         [] OTHER ->
                /\ px_refresh_on_401' = RefreshOn401Nested
                /\ px_pc' = "call"
                /\ UNCHANGED px_result
    /\ UNCHANGED <<px_method, px_url, px_sent>>
    /\ UNCHANGED restProxy

NextProxy ==
    \/ \E answer \in ProxyAnswers : DataProxyRequest(answer)
    \/ \E outcome \in RefreshOutcomes : RefreshToken(outcome)

-----------------------------------------------------------------------------
(* Serialization round trips.  An extractor is the record of its class and *)
(* its __dict__ (preprocessor, axis_2d, presmooth_sigma and the kernel's   *)
(* parameters); FeatureExtractor equality compares exactly these.  A       *)
(* preprocessor is named by the object it is; "OpRetriever()" is the       *)
(* default argument of the constructors.  Parameter values are small       *)
(* integers.                                                               *)

\* bounds of the round trip specification
MaxParam == 2
MaxBuckets == 3

\* the extractor classes and the parameters their constructors take
ExtractorParams ==
    [StructureTensorEigenvalues |-> {"innerScale", "outerScale"},
     GaussianGradientMagnitude |-> {"sigma"},
     GaussianSmoothing |-> {"sigma"},
     DifferenceOfGaussians |-> {"sigma0", "sigma1"},
     HessianOfGaussianEigenvalues |-> {"scale"},
     LaplacianOfGaussian |-> {"scale"}]

ExtractorClasses == DOMAIN ExtractorParams

\* the subclasses of SigmaWindowFilter
SigmaWindowFilters == {"GaussianGradientMagnitude", "GaussianSmoothing"}

Preprocessors == {"OpRetriever()", "custom operator"}

\* the constructors: SigmaWindowFilter.__init__ does not pass preprocessor to
\* its base class, which then takes its default; the others pass it on
NewExtractor(class, preprocessor, axis_2d, presmooth_sigma, window_size, params) ==
    [class |-> class,
     preprocessor |-> IF class \in SigmaWindowFilters THEN "OpRetriever()" ELSE preprocessor,
     axis_2d |-> axis_2d, presmooth_sigma |-> presmooth_sigma,
     window_size |-> window_size, params |-> params]

\* to_json_data: __class__, axis_2d and presmooth_sigma from the base class,
\* the kernel's parameters and window_size from the subclass
ToJsonData(x) ==
    [k \in {"__class__", "axis_2d", "presmooth_sigma", "window_size"} \cup DOMAIN x.params |->
        CASE k = "__class__" -> x.class
          [] k = "axis_2d" -> x.axis_2d
          [] k = "presmooth_sigma" -> x.presmooth_sigma
          [] k = "window_size" -> x.window_size
          [] OTHER -> x.params[k]]

\* from_json_data of the class the data names: cls(...) with the values read
\* from the data and no preprocessor argument
FromJsonData(data) ==
    NewExtractor(data["__class__"], "OpRetriever()", data["axis_2d"], data["presmooth_sigma"], data["window_size"],
                 [k \in ExtractorParams[data["__class__"]] |-> data[k]])

\* BucketFs(bucket_name): the name and the url derived from it
NewBucketFs(bucket_name) ==
    [class |-> "BucketFs", bucket_name |-> bucket_name,
     url |-> <<"https", "data-proxy.ebrains.eu", "api", "v1", "buckets", bucket_name>>]

\* BucketFs.to_dto
ToDto(fs) == [class |-> "BucketFSDto", bucket_name |-> fs.bucket_name]

\* BucketFs.from_dto
FromDto(dto) == NewBucketFs(dto.bucket_name)

InitRound ==
    /\ rt_pc = "object"
    /\ \/ \E class \in ExtractorClasses, preprocessor \in Preprocessors,
             axis_2d \in {"none", "z"}, presmooth_sigma \in 0..1, window_size \in {0, 35} :
              \E params \in [ExtractorParams[class] -> 1..MaxParam] :
                  rt_x = NewExtractor(class, preprocessor, axis_2d, presmooth_sigma,
                                      window_size, params)
       \/ \E bucket_name \in 1..MaxBuckets : rt_x = NewBucketFs(bucket_name)
    /\ rt_data = <<>>
    /\ rt_y = <<>>

IdleRound ==
    /\ rt_pc = "idle"
    /\ rt_x = <<>>
    /\ rt_data = <<>>
    /\ rt_y = <<>>

\* x.to_json_data() / fs.to_dto()
Encode ==
    /\ rt_pc = "object"
    /\ rt_data' = IF rt_x.class = "BucketFs" THEN ToDto(rt_x) ELSE ToJsonData(rt_x)
    /\ rt_pc' = "encoded"
    /\ UNCHANGED <<rt_x, rt_y>>
    /\ UNCHANGED restRound

\* from_json_data(data) / BucketFs.from_dto(dto)
Decode ==
    /\ rt_pc = "encoded"
    /\ rt_y' = IF rt_x.class = "BucketFs" THEN FromDto(rt_data) ELSE FromJsonData(rt_data)
    /\ rt_pc' = "decoded"
    /\ UNCHANGED <<rt_x, rt_data>>
    /\ UNCHANGED restRound

NextRound ==
    \/ Encode
    \/ Decode

-----------------------------------------------------------------------------
(* BucketFs.read_file and BucketFs.get_size: the data proxy is asked for   *)
(* the object's URL in the object store, then the object store is asked    *)
(* for the bytes (read_file) or, with a one-byte ranged GET, for the size  *)
(* (get_size, request_size).  What the data proxy call returns, whether    *)
(* its payload holds a URL, and the object store's answer are inputs.      *)
(* Header values are strings, modelled as sequences of characters.         *)

\* bound of the bucket specification: the largest object, in bytes
MaxObjectSize == 3

DigitChars == <<"0", "1", "2", "3", "4", "5", "6", "7", "8", "9">>

\* str(n) for n >= 0
RECURSIVE Decimal(_)
Decimal(n) ==
    IF n < 10 THEN <<DigitChars[n + 1]>>
    ELSE Decimal(n \div 10) \o <<DigitChars[(n % 10) + 1]>>

\* str.isdigit()
IsDigit(s) == s # <<>> /\ \A i \in 1..Len(s) : \E d \in 1..10 : s[i] = DigitChars[d]

\* int(s) of a string of digits
RECURSIVE ToInt(_)
ToInt(s) ==
    IF s = <<>> THEN 0
    ELSE 10 * ToInt(SubSeq(s, 1, Len(s) - 1))
         + (CHOOSE d \in 0..9 : DigitChars[d + 1] = s[Len(s)])

\* "/" in s
HasSlash(s) == \E i \in 1..Len(s) : s[i] = "/"

\* s.split("/")[-1]
AfterLastSlash(s) ==
    LET last == CHOOSE i \in 1..Len(s) : s[i] = "/" /\ \A j \in (i + 1)..Len(s) : s[j] # "/"
    IN SubSeq(s, last + 1, Len(s))

\* the Content-Range of the first byte of an object whose total size is the string total
ContentRange(total) == <<"b", "y", "t", "e", "s", " ", "0", "-", "0", "/">> \o total

NoHeaders == [h \in {} |-> <<>>]
ContentLengthHeader(value) == [h \in {"content-length"} |-> value]
ContentRangeHeader(value) == [h \in {"content-range"} |-> value]

\* the object's bytes
ObjectBytes(size) == [i \in 1..size |-> i]

\* the answers of the object store to GET with Range "bytes=0-0" for an
\* object of the given size: a partial response (206) with the range's
\* length and the total, with one of them, or with an unknown total; the
\* whole object (200) when the server ignores Range, with or without a
\* usable Content-Length; an error status; or the request crashes
StoreAnswers(size) ==
    {[status |-> 206, body |-> SubSeq(ObjectBytes(size), 1, 1), headers |-> h] :
        h \in {ContentLengthHeader(Decimal(1)) @@ ContentRangeHeader(ContentRange(Decimal(size))),
               ContentRangeHeader(ContentRange(Decimal(size))),
               ContentLengthHeader(Decimal(1)) @@ ContentRangeHeader(ContentRange(<<"*">>)),
               ContentRangeHeader(ContentRange(<<"*">>)),
               ContentRangeHeader(<<"b", "y", "t", "e", "s">>)}}
    \cup {[status |-> 200, body |-> ObjectBytes(size), headers |-> h] :
        h \in {ContentLengthHeader(Decimal(size)), NoHeaders, ContentLengthHeader(<<"x">>)}}
    \cup {[status |-> s, body |-> <<>>, headers |-> NoHeaders] : s \in {NotFound, 403, 500, Crashed}}

\* what _requests_from_data_proxy can return
ProxyReturns ==
    {ProxyResult(answer) : answer \in ProxyAnswers} \cup {[kind |-> "refresh error", status |-> 0]}

\* utility.request.request: the answer as a value
Request(answer, num_bytes) ==
    CASE answer.status = Crashed -> [kind |-> "ErrRequestCrashed", status |-> 0]
      [] ~Ok(answer.status) -> [kind |-> "ErrRequestCompletedAsFailure", status |-> answer.status]
      [] OTHER -> [kind |-> "content", status |-> answer.status, headers |-> answer.headers,
                   content |-> IF num_bytes = 0 THEN answer.body
                               ELSE SubSeq(answer.body, 1, IF Len(answer.body) < num_bytes
                                                           THEN Len(answer.body) ELSE num_bytes)]

\* utility.request.request_size, after its request(offset=0, num_bytes=1)
RequestSize(response) ==
    IF response.kind # "content" THEN response
    ELSE LET headers == response.headers
         IN IF "content-length" \in DOMAIN headers
            THEN IF IsDigit(headers["content-length"])
                 THEN [kind |-> "size", value |-> ToInt(headers["content-length"])]
                 ELSE [kind |-> "ErrBadContentLength", status |-> 0]
            ELSE IF /\ "content-range" \in DOMAIN headers
                    /\ HasSlash(headers["content-range"])
                    /\ IsDigit(AfterLastSlash(headers["content-range"]))
                 THEN [kind |-> "size", value |-> ToInt(AfterLastSlash(headers["content-range"]))]
                 ELSE [kind |-> "ErrBadContentLength", status |-> 0]

InitBucket ==
    /\ bk_pc = "call"
    /\ bk_op \in {"read_file", "get_size"}
    /\ bk_size \in 1..MaxObjectSize
    /\ bk_proxy = <<>>
    /\ bk_store = <<>>
    /\ bk_downloaded = 0
    /\ bk_result = <<>>

IdleBucket ==
    /\ bk_pc = "idle"
    /\ bk_op = ""
    /\ bk_size = 0
    /\ bk_proxy = <<>>
    /\ bk_store = <<>>
    /\ bk_downloaded = 0
    /\ bk_result = <<>>

\* get_swift_object_url, and the early return of read_file / get_size on its error
GetSwiftObjectUrl(data_proxy_response, has_url) ==
    /\ bk_pc = "call"
    /\ bk_proxy' = data_proxy_response
    /\ CASE data_proxy_response.kind = "FsFileNotFoundException" ->
                /\ bk_result' = [kind |-> "FsFileNotFoundException", value |-> 0]
                /\ bk_pc' = "returned"
         [] data_proxy_response.kind # "content" ->
                /\ bk_result' = [kind |-> "FsIoException", value |-> 0]
                /\ bk_pc' = "returned"
         [] ~has_url ->
                /\ bk_result' = [kind |-> "FsIoException", value |-> 0]
                /\ bk_pc' = "returned"
         [] OTHER ->
                /\ bk_pc' = "store"
                /\ UNCHANGED bk_result
    /\ UNCHANGED <<bk_op, bk_size, bk_store, bk_downloaded>>
    /\ UNCHANGED restBucket

\* read_file after the URL: safe_request(get, offset=0, num_bytes=None); the
\* whole object is asked for, so the one-byte partial answers do not occur
ReadFile(answer) ==
    /\ bk_pc = "store"
    /\ bk_op = "read_file"
    /\ answer.status # 206
    /\ bk_store' = answer
    /\ bk_downloaded' = Len(answer.body)
    /\ LET cscs_response == Request(answer, 0)
       IN bk_result' = IF cscs_response.kind # "content"
                       THEN [kind |-> "FsIoException", value |-> 0]
                       ELSE [kind |-> "bytes", value |-> cscs_response.content]
    /\ bk_pc' = "returned"
    /\ UNCHANGED <<bk_op, bk_size, bk_proxy>>
    /\ UNCHANGED restBucket

\* get_size after the URL: request_size and the branches on its result
GetSize(answer) ==
    /\ bk_pc = "store"
    /\ bk_op = "get_size"
    /\ bk_store' = answer
    /\ bk_downloaded' = Len(answer.body)
    /\ LET size_result == RequestSize(Request(answer, 1))
       IN bk_result' =
              CASE size_result.kind = "ErrRequestCompletedAsFailure" ->
                       IF size_result.status = 404
                       THEN [kind |-> "FsFileNotFoundException", value |-> 0]
                       ELSE [kind |-> "FsIoException", value |-> 0]
                [] size_result.kind # "size" -> [kind |-> "FsIoException", value |-> 0]
                [] OTHER -> size_result
    /\ bk_pc' = "returned"
    /\ UNCHANGED <<bk_op, bk_size, bk_proxy>>
    /\ UNCHANGED restBucket

NextBucket ==
    \/ \E data_proxy_response \in ProxyReturns, has_url \in BOOLEAN :
           GetSwiftObjectUrl(data_proxy_response, has_url)
    \/ \E answer \in StoreAnswers(bk_size) : ReadFile(answer)
    \/ \E answer \in StoreAnswers(bk_size) : GetSize(answer)

-----------------------------------------------------------------------------
(* BucketFs.delete: list the parent, send the delete request, and for a    *)
(* directory list the parent again every dir_wait_interval until the       *)
(* directory is gone or dir_wait_time is used up.  The listings and the    *)
(* outcome of the delete request are inputs.                               *)
(*                                                                         *)
(* Seconds is defined outside the sources at hand.  It is built from       *)
(* Python numbers (Seconds(5), Seconds(0.2)) and gives its value to        *)
(* time.sleep with to_float(), so dir_wait_time -= dir_wait_interval is    *)
(* modelled as the subtraction of Python floats: IEEE-754 binary64,        *)
(* rounded to the nearest value, ties to the even one.  A float is         *)
(* [sign, n, e]: the number sign * n * 2^e, with n a whole number written  *)
(* as three limbs of 24 bits, the most significant first.  All floats of   *)
(* one call are kept over the exponent e of dir_wait_interval, which is    *)
(* the smallest in play: differences and rounded differences of multiples  *)
(* of 2^e are multiples of 2^e.                                            *)

\* bound of the delete specification: the longest dir_wait_time, in seconds
MaxWaitSeconds == 5

\* the precision of a binary64
SignificandBits == 53

\* the size of a limb
LimbBits == 24
Base == 2 ^ LimbBits

\* limbs that ran over or under, carried into range
Carried(a) ==
    LET t1 == a[2] + (a[3] \div Base)
    IN <<a[1] + (t1 \div Base), t1 % Base, a[3] % Base>>

LimbsLess(a, b) ==
    \/ a[1] < b[1]
    \/ a[1] = b[1] /\ a[2] < b[2]
    \/ a[1] = b[1] /\ a[2] = b[2] /\ a[3] < b[3]

\* a - b for a >= b
LimbsSub(a, b) == Carried(<<a[1] - b[1], a[2] - b[2], a[3] - b[3]>>)

\* a * k for a small whole k
LimbsTimes(a, k) == Carried(<<a[1] * k, a[2] * k, a[3] * k>>)

\* the number of bits of a whole number below Base
BitLen(k) == CHOOSE w \in 0..LimbBits : k < 2 ^ w /\ (w = 0 \/ 2 ^ (w - 1) <= k)

BitLength(a) ==
    IF a[1] > 0 THEN 2 * LimbBits + BitLen(a[1])
    ELSE IF a[2] > 0 THEN LimbBits + BitLen(a[2]) ELSE BitLen(a[3])

\* the floats 0.1, 0.2 (the default dir_wait_interval) and 0.5:
\* 0x1999999999999A * 2^-56, 0x1999999999999A * 2^-55 and 1 * 2^-1
Tenth == [sign |-> 1, n |-> <<25, 10066329, 10066330>>, e |-> 0 - 56]
Fifth == [sign |-> 1, n |-> <<25, 10066329, 10066330>>, e |-> 0 - 55]
Half == [sign |-> 1, n |-> <<0, 0, 1>>, e |-> 0 - 1]

WaitIntervals == {Tenth, Fifth, Half}

\* float(k) of a whole number of seconds, over the exponent e <= 0
FromInt(k, e) ==
    [sign |-> IF k = 0 THEN 0 ELSE 1,
     n |-> IF 0 - e >= 2 * LimbBits THEN <<k * 2 ^ (0 - e - 2 * LimbBits), 0, 0>>
           ELSE IF 0 - e >= LimbBits THEN Carried(<<0, k * 2 ^ (0 - e - LimbBits), 0>>)
           ELSE Carried(<<0, 0, k * 2 ^ (0 - e)>>),
     e |-> e]

\* a - b as a real number, for a >= 0 and b > 0 over one exponent
ExactSub(a, b) ==
    IF a.n = b.n THEN [sign |-> 0, n |-> <<0, 0, 0>>, e |-> a.e]
    ELSE IF LimbsLess(b.n, a.n)
         THEN [sign |-> 1, n |-> LimbsSub(a.n, b.n), e |-> a.e]
         ELSE [sign |-> 0 - 1, n |-> LimbsSub(b.n, a.n), e |-> a.e]

\* the binary64 nearest to x, ties to even: n keeps its SignificandBits
\* leading bits, the bits below them are rounded away
Rounded(x) ==
    LET dropped == BitLength(x.n) - SignificandBits
    IN IF dropped <= 0 THEN x
       ELSE LET unit == 2 ^ dropped
                rest == x.n[3] % unit
                odd == (x.n[3] \div unit) % 2 = 1
                up == 2 * rest > unit \/ (2 * rest = unit /\ odd)
                low == x.n[3] - rest + (IF up THEN unit ELSE 0)
            IN [x EXCEPT !.n = Carried(<<x.n[1], x.n[2], low>>)]

\* a dir_wait_time that is never counted down
SecondsKept(a, b) == a

\* Seconds.__sub__: the float a - b
SecondsSub(a, b) == Rounded(ExactSub(a, b))

\* dir_wait_time > Seconds(0)
WaitTimeLeft(x) == x.sign = 1

\* what list_contents returns about the path: the lists it is in, or an error
Listings ==
    {[kind |-> "FsDirectoryContents", files |-> f, directories |-> d] : f, d \in BOOLEAN}
    \cup {[kind |-> "FsIoException", files |-> FALSE, directories |-> FALSE]}

\* what the waiting loop looks at in a listing: the directories, or the error
PollListings == {listing \in Listings : ~listing.files}

\* path in any of the two lists
InFilesOrDirectories(contents) == contents.files \/ contents.directories

\* path in dir_contents_result.files
InFiles(contents) == contents.files

\* path in dir_contents_result.directories
InDirectories(contents) == contents.directories

InitDelete ==
    /\ de_pc = "list"
    /\ de_wait_time \in 0..MaxWaitSeconds
    /\ de_wait_interval \in WaitIntervals
    /\ de_left = FromInt(de_wait_time, de_wait_interval.e)
    /\ de_contents = <<>>
    /\ de_deletions = <<>>
    /\ de_polls = <<>>
    /\ de_result = ""

IdleDelete ==
    /\ de_pc = "idle"
    /\ de_wait_time = 0
    /\ de_wait_interval = <<>>
    /\ de_left = <<>>
    /\ de_contents = <<>>
    /\ de_deletions = <<>>
    /\ de_polls = <<>>
    /\ de_result = ""

\* dir_contents_result = self.list_contents(path.parent)
ListContents(listing) ==
    /\ de_pc = "list"
    /\ de_contents' = listing
    /\ IF listing.kind # "FsDirectoryContents"
       THEN /\ de_result' = listing.kind
            /\ de_pc' = "returned"
       ELSE /\ de_pc' = "delete"
            /\ UNCHANGED de_result
    /\ UNCHANGED <<de_wait_time, de_wait_interval, de_left, de_deletions, de_polls>>
    /\ UNCHANGED restDelete

\* the delete request and the branches up to the first test of the loop
DeletionRequest(ok) ==
    /\ de_pc = "delete"
    /\ de_deletions' = Append(de_deletions, ok)
    /\ CASE ~ok ->
                /\ de_result' = "FsIoException"
                /\ de_pc' = "returned"
         [] ok /\ InFiles(de_contents) ->
                /\ de_result' = "None"
                /\ de_pc' = "returned"
         [] ok /\ ~InFiles(de_contents) /\ InDirectories(de_contents) /\ WaitTimeLeft(de_left) ->
                /\ de_pc' = "poll"
                /\ UNCHANGED de_result
         [] OTHER ->
                /\ de_result' = "FsIoException"
                /\ de_pc' = "returned"
    /\ UNCHANGED <<de_wait_time, de_wait_interval, de_left, de_contents, de_polls>>
    /\ UNCHANGED restDelete

\* one pass of the waiting loop and the test for the next
PollParent(listing) ==
    /\ de_pc = "poll"
    /\ de_polls' = Append(de_polls, listing)
    /\ CASE listing.kind # "FsDirectoryContents" ->
                /\ de_result' = listing.kind
                /\ de_pc' = "returned"
                /\ UNCHANGED de_left
         [] listing.kind = "FsDirectoryContents" /\ ~InDirectories(listing) ->
                /\ de_result' = "None"
                /\ de_pc' = "returned"
                /\ UNCHANGED de_left
         [] OTHER ->
                /\ de_left' = SecondsSub(de_left, de_wait_interval)
                /\ IF WaitTimeLeft(de_left')
                   THEN /\ de_pc' = "poll"
                        /\ UNCHANGED de_result
                   ELSE /\ de_result' = "FsIoException"
                        /\ de_pc' = "returned"
    /\ UNCHANGED <<de_wait_time, de_wait_interval, de_contents, de_deletions>>
    /\ UNCHANGED restDelete

NextDelete ==
    \/ \E listing \in Listings : ListContents(listing)
    \/ \E ok \in BOOLEAN : DeletionRequest(ok)
    \/ \E listing \in PollListings : PollParent(listing)

-----------------------------------------------------------------------------
(* The export worker (export_worker.main): the job's parts are read and    *)
(* the sink opened, the datasource's region is split into tiles of the     *)
(* sink's tile shape over all channels, and export_job.target is called    *)
(* on one tile after the other.  Whether the setup succeeds and what each  *)
(* step returns are inputs; a step may also raise.                         *)

\* bounds of the export specification
MaxExportExtent == 3
MaxExportTile == 2

ExportAxes == {"y", "x", "c"}

\* isinstance(result, Exception) that never holds
IsExceptionNever(result) == FALSE

\* isinstance(result, Exception)
IsException(result) == result = "Exception"

\* datasource.roi.split(block_shape=tile_shape.updated(c=datasource.shape.c))
ExportArgs(roi, tile_shape) ==
    Split(roi, [a \in ExportAxes |-> IF a = "c" THEN roi.stop["c"] - roi.start["c"]
                                      ELSE tile_shape[a]])

InitExport ==
    /\ ex_pc = "setup"
    /\ ex_job \in {"pixel_probabilities", "simple_segmentation", "unknown"}
    /\ \E shape \in [ExportAxes -> 1..MaxExportExtent] :
           ex_roi = ToInterval(shape, [a \in ExportAxes |-> 0])
    /\ ex_tile_shape \in [{"y", "x"} -> 1..MaxExportTile]
    /\ ex_args = <<>>
    /\ ex_ran = <<>>
    /\ ex_status = 0 - 1
    /\ ex_completed = FALSE

IdleExport ==
    /\ ex_pc = "idle"
    /\ ex_job = ""
    /\ ex_roi = <<>>
    /\ ex_tile_shape = <<>>
    /\ ex_args = <<>>
    /\ ex_ran = <<>>
    /\ ex_status = 0 - 1
    /\ ex_completed = FALSE

\* main up to the creation of the export job: a part that cannot be read,
\* a sink that cannot be opened or an unknown export type exits with 1
CreateExportJob(ok) ==
    /\ ex_pc = "setup"
    /\ IF ok /\ ex_job # "unknown"
       THEN /\ ex_args' = ExportArgs(ex_roi, ex_tile_shape)
            /\ ex_pc' = "running"
            /\ UNCHANGED ex_status
       ELSE /\ ex_status' = 1
            /\ ex_pc' = "exited"
            /\ UNCHANGED ex_args
    /\ UNCHANGED <<ex_job, ex_roi, ex_tile_shape, ex_ran, ex_completed>>
    /\ UNCHANGED restExport

\* one pass of "for step_arg in export_job.args", and the end of main
\* after the last
ExportStep(result) ==
    /\ ex_pc = "running"
    /\ Len(ex_ran) < Len(ex_args)
    /\ LET step_arg == ex_args[Len(ex_ran) + 1]
       IN ex_ran' = Append(ex_ran, [arg |-> step_arg, result |-> result])
    /\ CASE result = "raises" ->
                /\ ex_status' = 1
                /\ ex_pc' = "exited"
                /\ UNCHANGED ex_completed
         [] result # "raises" /\ IsException(result) ->
                /\ ex_status' = 1
                /\ ex_pc' = "exited"
                /\ UNCHANGED ex_completed
         [] OTHER ->
                IF Len(ex_ran') = Len(ex_args)
                THEN /\ ex_completed' = TRUE
                     /\ ex_status' = 0
                     /\ ex_pc' = "exited"
                ELSE UNCHANGED <<ex_pc, ex_status, ex_completed>>
    /\ UNCHANGED <<ex_job, ex_roi, ex_tile_shape, ex_args>>
    /\ UNCHANGED restExport

NextExport ==
    \/ \E ok \in BOOLEAN : CreateExportJob(ok)
    \/ \E result \in {"None", "Exception", "raises"} : ExportStep(result)

-----------------------------------------------------------------------------
(* The server's do_predictions under concurrent requests.  The executors   *)
(* are created once for the module, one process pool of one worker per     *)
(* index; every request batches its tiles by hash(slc) % num_workers,      *)
(* submits each batch to the executor of its index and then takes the      *)
(* results of its futures in submission order, setting every result into   *)
(* its own predictions buffer.  Two requests for the same region run       *)
(* side by side.                                                           *)

\* bounds of the server specification
MaxServerWorkers == 2
MaxServerTiles == 2

Requests == {1, 2}

\* what hash(slc) may be: any Python int, negative ones included
HashValues == {0 - 3, 0 - 1, 0, 2}

\* a process pool that runs two work items at a time
TwoProcesses == 1 + 1

\* ProcessPoolExecutor(max_workers=1)
ExecutorMaxWorkers == 1

\* batch_idx = hash(slc) % args.num_workers, Python's % of a positive
\* divisor: never negative
BatchIndex(hash, num_workers) == hash % num_workers

\* slc_batches.items(): a batch per index that occurs, in the order in which
\* the indices occurred first, each batch in the order of get_tiles()
SlcBatchItems(num_slices, num_workers, hash) ==
    LET idx(k) == BatchIndex(hash[k], num_workers)
        used == {idx(k) : k \in 1..num_slices}
        first(i) == CHOOSE k \in 1..num_slices : idx(k) = i /\ \A j \in 1..(k - 1) : idx(j) # i
        rank(i) == Cardinality({j \in used : first(j) < first(i)}) + 1
    IN [r \in 1..Cardinality(used) |->
           LET i == CHOOSE i \in used : rank(i) = r
           IN [idx |-> i,
               slices |-> SelectSeq([k \in 1..num_slices |-> k], LAMBDA k : idx(k) = i)]]

InitServe ==
    /\ sv_workers \in 1..MaxServerWorkers
    /\ sv_tiles \in 1..MaxServerTiles
    /\ sv_hash \in [1..sv_tiles -> HashValues]
    /\ sv_pc = [r \in Requests |-> "start"]
    /\ sv_batches = [r \in Requests |-> <<>>]
    /\ sv_submitted = [r \in Requests |-> 0]
    /\ sv_next = [r \in Requests |-> 1]
    /\ sv_merged = [r \in Requests |-> [k \in 1..sv_tiles |-> 0]]
    /\ sv_queues = [i \in 0..(sv_workers - 1) |-> <<>>]
    /\ sv_running = [i \in 0..(sv_workers - 1) |-> {}]
    /\ sv_done = [item \in {} |-> ""]

IdleServe ==
    /\ sv_workers = 0
    /\ sv_tiles = 0
    /\ sv_hash = <<>>
    /\ sv_pc = <<>>
    /\ sv_batches = <<>>
    /\ sv_submitted = <<>>
    /\ sv_next = <<>>
    /\ sv_merged = <<>>
    /\ sv_queues = <<>>
    /\ sv_running = <<>>
    /\ sv_done = <<>>

\* do_predictions up to the submission loop: allocate_predictions, slc_batches
DoPredictionsBatch(r) ==
    /\ r \in DOMAIN sv_pc
    /\ sv_pc[r] = "start"
    /\ sv_batches' = [sv_batches EXCEPT ![r] = SlcBatchItems(sv_tiles, sv_workers, sv_hash)]
    /\ sv_pc' = [sv_pc EXCEPT ![r] = "submitting"]
    /\ UNCHANGED <<sv_workers, sv_tiles, sv_hash, sv_submitted, sv_next, sv_merged, sv_queues,
                   sv_running, sv_done>>
    /\ UNCHANGED restServe

\* executors[idx].submit(do_worker_predict, (classifier, batch))
DoPredictionsSubmit(r) ==
    /\ r \in DOMAIN sv_pc
    /\ sv_pc[r] = "submitting"
    /\ LET b == sv_submitted[r] + 1
           idx == sv_batches[r][b].idx
       IN /\ sv_queues' = [sv_queues EXCEPT ![idx] = Append(@, <<r, b>>)]
          /\ sv_submitted' = [sv_submitted EXCEPT ![r] = b]
          /\ sv_pc' = [sv_pc EXCEPT ![r] = IF b = Len(sv_batches[r]) THEN "collecting"
                                           ELSE "submitting"]
    /\ UNCHANGED <<sv_workers, sv_tiles, sv_hash, sv_batches, sv_next, sv_merged, sv_running,
                   sv_done>>
    /\ UNCHANGED restServe

\* a free worker process of executor i takes the oldest waiting work item
ExecutorStart(i) ==
    /\ i \in DOMAIN sv_queues
    /\ sv_queues[i] # <<>>
    /\ Cardinality(sv_running[i]) < ExecutorMaxWorkers
    /\ sv_running' = [sv_running EXCEPT ![i] = @ \cup {Head(sv_queues[i])}]
    /\ sv_queues' = [sv_queues EXCEPT ![i] = Tail(@)]
    /\ UNCHANGED <<sv_workers, sv_tiles, sv_hash, sv_pc, sv_batches, sv_submitted, sv_next,
                   sv_merged, sv_done>>
    /\ UNCHANGED restServe

\* do_worker_predict in the worker process: the batch's predictions, or the
\* exception of a prediction that raises
DoWorkerPredict(i, item, outcome) ==
    /\ i \in DOMAIN sv_running
    /\ item \in sv_running[i]
    /\ sv_running' = [sv_running EXCEPT ![i] = @ \ {item}]
    /\ sv_done' = (item :> outcome) @@ sv_done
    /\ UNCHANGED <<sv_workers, sv_tiles, sv_hash, sv_pc, sv_batches, sv_submitted, sv_next,
                   sv_merged, sv_queues>>
    /\ UNCHANGED restServe

\* for result in future.result(): predictions.set(result), and the return
\* after the last future
DoPredictionsCollect(r) ==
    /\ r \in DOMAIN sv_pc
    /\ sv_pc[r] = "collecting"
    /\ <<r, sv_next[r]>> \in DOMAIN sv_done
    /\ IF sv_done[<<r, sv_next[r]>>] = "exception"
       THEN /\ sv_pc' = [sv_pc EXCEPT ![r] = "error"]
            /\ UNCHANGED <<sv_next, sv_merged>>
       ELSE LET slices == sv_batches[r][sv_next[r]].slices
            IN /\ sv_merged' = [sv_merged EXCEPT ![r] =
                      [k \in DOMAIN @ |->
                          @[k] + Cardinality({j \in 1..Len(slices) : slices[j] = k})]]
               /\ sv_next' = [sv_next EXCEPT ![r] = @ + 1]
               /\ sv_pc' = [sv_pc EXCEPT ![r] = IF sv_next[r] = Len(sv_batches[r])
                                                THEN "returned" ELSE "collecting"]
    /\ UNCHANGED <<sv_workers, sv_tiles, sv_hash, sv_batches, sv_submitted, sv_queues,
                   sv_running, sv_done>>
    /\ UNCHANGED restServe

NextServe ==
    \/ \E r \in Requests : DoPredictionsBatch(r)
    \/ \E r \in Requests : DoPredictionsSubmit(r)
    \/ \E i \in 0..(MaxServerWorkers - 1) : ExecutorStart(i)
    \/ \E i \in 0..(MaxServerWorkers - 1), r \in Requests, b \in 1..MaxServerWorkers,
          outcome \in {"result", "exception"} : DoWorkerPredict(i, <<r, b>>, outcome)
    \/ \E r \in Requests : DoPredictionsCollect(r)

-----------------------------------------------------------------------------
(* Color.create_color_map: the distinct colors are sorted by their q_rgba  *)
(* key and numbered from 1; FeatureSamples.get_y makes the label column of *)
(* a sample matrix.  A color is <<r, g, b, a>>.  The set of colors is      *)
(* iterated in an order that depends on the colors' hashes and on the      *)
(* order in which they were put in; sorted() is stable, so colors of equal *)
(* key keep that order.                                                    *)

\* bounds of the color specification
MaxColors == 3
MaxSampleRows == 2

\* the colors of the model: opaque, with channels small and large enough
\* for the weights of q_rgba to overlap
Colors == {<<r, gb[1], gb[2], 255>> : r \in {0, 1}, gb \in {<<0, 0>>, <<2, 0>>, <<16, 32>>}}

\* Color.q_rgba: sum(c * (16 ** (3 - idx)) for idx, c in enumerate(self.rgba))
QRgba(color) == color[1] * 4096 + color[2] * 256 + color[3] * 16 + color[4]

\* the orders in which a set can be iterated
IterationOrders(S) ==
    {order \in [1..Cardinality(S) -> S] : \A i, j \in DOMAIN order : order[i] = order[j] => i = j}

\* Color.sort: sorted(colors, key=lambda c: c.q_rgba), a stable sort
ColorSort(order) ==
    LET place(i) == Cardinality({j \in DOMAIN order : QRgba(order[j]) < QRgba(order[i])})
                    + Cardinality({j \in 1..i : QRgba(order[j]) = QRgba(order[i])})
    IN [p \in DOMAIN order |-> order[CHOOSE i \in DOMAIN order : place(i) = p]]

\* {color: np.uint8(idx + 1) for idx, color in enumerate(cls.sort(set(colors)))}
ColorMapOf(order) ==
    LET sorted == ColorSort(order)
    IN [color \in {sorted[i] : i \in DOMAIN sorted} |->
           (CHOOSE i \in DOMAIN sorted : sorted[i] = color) % 256]

\* np.full((self.shape.volume, 1), label_class, dtype=np.uint32)
GetY(volume, label_class) == [row \in 1..volume |-> <<label_class>>]

InitColor ==
    /\ cm_pc = "colors"
    /\ cm_colors \in {S \in SUBSET Colors : Cardinality(S) <= MaxColors}
    /\ cm_order = <<>>
    /\ cm_map = <<>>
    /\ cm_volume = 0
    /\ cm_y = <<>>

IdleColor ==
    /\ cm_pc = "idle"
    /\ cm_colors = {}
    /\ cm_order = <<>>
    /\ cm_map = <<>>
    /\ cm_volume = 0
    /\ cm_y = <<>>

CreateColorMap(order) ==
    /\ cm_pc = "colors"
    /\ cm_order' = order
    /\ cm_map' = ColorMapOf(order)
    /\ cm_pc' = "mapped"
    /\ UNCHANGED <<cm_colors, cm_volume, cm_y>>
    /\ UNCHANGED restColor

\* samples.get_y(color_map[color]) for the samples of an annotation of that color
SamplesGetY(color, volume) ==
    /\ cm_pc = "mapped"
    /\ color \in DOMAIN cm_map
    /\ cm_volume' = volume
    /\ cm_y' = GetY(volume, cm_map[color])
    /\ cm_pc' = "labelled"
    /\ UNCHANGED <<cm_colors, cm_order, cm_map>>
    /\ UNCHANGED restColor

NextColor ==
    \/ \E order \in IterationOrders(cm_colors) : CreateColorMap(order)
    \/ \E color \in Colors, volume \in 0..MaxSampleRows : SamplesGetY(color, volume)

-----------------------------------------------------------------------------
(* The preprocessor of an extractor: the constructor is called with a      *)
(* preprocessor, and compute reads the kernel's input through the          *)
(* instance's preprocessor, directly or through the GaussianSmoothing      *)
(* sub-operator it builds when presmooth_sigma > 0.                        *)

\* window_size=3.5 of the presmoothing sub-operator, in tenths
SmoothingWindow == 35

\* the preprocessor whose compute the operator x calls for its raw data
\* (x itself has no presmoothing)
ReadsThrough(x) == x.preprocessor

InitBuild ==
    /\ kx_pc = "arguments"
    /\ \E class \in ExtractorClasses, preprocessor \in Preprocessors,
          axis_2d \in {"none", "z"}, presmooth_sigma \in 0..1, window_size \in {0, SmoothingWindow} :
           \E params \in [ExtractorParams[class] -> 1..MaxParam] :
               kx_args = [class |-> class, preprocessor |-> preprocessor, axis_2d |-> axis_2d,
                          presmooth_sigma |-> presmooth_sigma, window_size |-> window_size,
                          params |-> params]
    /\ kx_x = <<>>
    /\ kx_smoothing = <<>>
    /\ kx_read_by = ""

IdleBuild ==
    /\ kx_pc = "idle"
    /\ kx_args = <<>>
    /\ kx_x = <<>>
    /\ kx_smoothing = <<>>
    /\ kx_read_by = ""

\* cls(preprocessor=..., axis_2d=..., presmooth_sigma=..., ...)
ConstructExtractor ==
    /\ kx_pc = "arguments"
    /\ kx_x' = NewExtractor(kx_args.class, kx_args.preprocessor, kx_args.axis_2d,
                            kx_args.presmooth_sigma, kx_args.window_size, kx_args.params)
    /\ kx_pc' = "constructed"
    /\ UNCHANGED <<kx_args, kx_smoothing, kx_read_by>>
    /\ UNCHANGED restBuild

\* compute, for one piece: source_data comes from a GaussianSmoothing built
\* with self.preprocessor, or from self.preprocessor itself
ComputeSourceData ==
    /\ kx_pc = "constructed"
    /\ IF kx_x.presmooth_sigma > 0
       THEN LET gaussian_filter == NewExtractor("GaussianSmoothing", kx_x.preprocessor,
                                                kx_x.axis_2d, 0, SmoothingWindow,
                                                [k \in {"sigma"} |-> kx_x.presmooth_sigma])
            IN /\ kx_smoothing' = gaussian_filter
               /\ kx_read_by' = ReadsThrough(gaussian_filter)
       ELSE /\ kx_smoothing' = <<>>
            /\ kx_read_by' = ReadsThrough(kx_x)
    /\ kx_pc' = "computed"
    /\ UNCHANGED <<kx_args, kx_x>>
    /\ UNCHANGED restBuild

NextBuild ==
    \/ ConstructExtractor
    \/ ComputeSourceData

-----------------------------------------------------------------------------
(* Specifications *)

InitOf(m) ==
    /\ IF m = "split" THEN InitSplit ELSE IdleSplit
    /\ IF m = "collection" THEN InitColl ELSE IdleColl
    /\ IF m = "applicability" THEN InitApplic ELSE IdleApplic
    /\ IF m = "cache" THEN InitCache ELSE IdleCache
    /\ IF m = "race" THEN InitRace ELSE IdleRace
    /\ IF m = "halo" THEN InitHalo ELSE IdleHalo
    /\ IF m = "merge" THEN InitMerge ELSE IdleMerge
    /\ IF m = "orch" THEN InitOrch ELSE IdleOrch
    /\ IF m = "batch" THEN InitBatch ELSE IdleBatch
    /\ IF m = "annot" THEN InitAnnot ELSE IdleAnnot
    /\ IF m = "samples" THEN InitSamples ELSE IdleSamples
    /\ IF m = "channelwise" THEN InitChan ELSE IdleChan
    /\ IF m = "wire" THEN InitWire ELSE IdleWire
    /\ IF m = "proxy" THEN InitProxy ELSE IdleProxy
    /\ IF m = "roundtrip" THEN InitRound ELSE IdleRound
    /\ IF m = "bucket" THEN InitBucket ELSE IdleBucket
    /\ IF m = "delete" THEN InitDelete ELSE IdleDelete
    /\ IF m = "export" THEN InitExport ELSE IdleExport
    /\ IF m = "serve" THEN InitServe ELSE IdleServe
    /\ IF m = "color" THEN InitColor ELSE IdleColor
    /\ IF m = "build" THEN InitBuild ELSE IdleBuild

SpecSplit == InitOf("split") /\ [][NextSplit]_vars

SpecColl == InitOf("collection") /\ [][NextColl]_vars

SpecApplic == InitOf("applicability") /\ [][NextApplic]_vars

SpecCache == InitOf("cache") /\ [][NextCache]_vars

SpecRace == InitOf("race") /\ [][NextRace]_vars

SpecHalo == InitOf("halo") /\ [][NextHalo]_vars

SpecMerge == InitOf("merge") /\ [][NextMerge]_vars

SpecOrch == InitOf("orch") /\ [][NextOrch]_vars

SpecBatch == InitOf("batch") /\ [][NextBatch]_vars

SpecAnnot == InitOf("annot") /\ [][NextAnnot]_vars

SpecSamples == InitOf("samples") /\ [][NextSamples]_vars

SpecChan == InitOf("channelwise") /\ [][NextChan]_vars

SpecWire == InitOf("wire") /\ [][NextWire]_vars

SpecProxy == InitOf("proxy") /\ [][NextProxy]_vars

SpecRound == InitOf("roundtrip") /\ [][NextRound]_vars

SpecBucket == InitOf("bucket") /\ [][NextBucket]_vars

SpecDelete == InitOf("delete") /\ [][NextDelete]_vars

SpecExport == InitOf("export") /\ [][NextExport]_vars

SpecServe == InitOf("serve") /\ [][NextServe]_vars

SpecColor == InitOf("color") /\ [][NextColor]_vars

SpecBuild == InitOf("build") /\ [][NextBuild]_vars

-----------------------------------------------------------------------------
(* C1: after split(R, S) with every component of S >= 1, every voxel of R  *)
(* lies in exactly one tile, no tile holds a voxel outside R, and the      *)
(* tiles are pairwise disjoint.                                            *)
PartitionProperty ==
    sp_pc \in {"tiles", "steps"} =>
        /\ \A p \in Voxels(sp_roi) :
               Cardinality({k \in 1..Len(sp_tiles) : InRegion(p, sp_tiles[k])}) = 1
        /\ \A k \in 1..Len(sp_tiles) :
               \A p \in Voxels(sp_tiles[k]) : InRegion(p, sp_roi)
        /\ \A j, k \in 1..Len(sp_tiles) : j # k => Disjoint(sp_tiles[j], sp_tiles[k])

\* a region whose extent is no multiple of the block shape has been split
\* into several tiles, the last of them clamped
PartitionWitness ==
    /\ sp_pc = "tiles"
    /\ Len(sp_tiles) > 1
    /\ \E a \in SplitAxes :
           /\ sp_block[a] = 2
           /\ ShapeOf(sp_roi)[a] = 3
    /\ \A a \in SplitAxes : ShapeOf(sp_roi)[a] >= 1

(* C8: FeatureExtractorCollection.compute_into runs its children in order; *)
(* child i is handed the channels from the sum of the expected channel     *)
(* counts of the children before it up to that sum plus its own count      *)
(* (relative to the first channel of out); the ranges are pairwise         *)
(* disjoint and cover exactly the channels of out, each channel written by *)
(* exactly one child.                                                      *)
ChannelBookkeeping ==
    co_pc = "done" =>
        /\ Len(co_ranges) = Len(co_extractors)
        /\ \A i \in 1..Len(co_extractors) :
               LET before == SumSeq([j \in 1..(i - 1) |-> co_extractors[j] * co_in_c])
               IN co_ranges[i] = <<co_out.start_c + before,
                                   co_out.start_c + before + co_extractors[i] * co_in_c>>
        /\ \A ch \in co_out.start_c..(co_out.start_c + co_out.c - 1) :
               /\ Len(co_writers[ch]) = 1
               /\ LET i == co_writers[ch][1]
                  IN co_ranges[i][1] <= ch /\ ch < co_ranges[i][2]
        /\ \A i \in 1..Len(co_ranges) :
               co_out.start_c <= co_ranges[i][1]
               /\ co_ranges[i][2] <= co_out.start_c + co_out.c

\* the spec's example: multipliers 1 and 3 on a 1-channel input give a
\* 4-channel output, [0,1) from the first child and [1,4) from the second
ChannelBookkeepingWitness ==
    /\ co_pc = "done"
    /\ co_extractors = <<1, 3>>
    /\ co_in_c = 1
    /\ co_out = [start_c |-> 0, c |-> 4]
    /\ co_ranges = << <<0, 1>>, <<1, 4>> >>

\* what the extractor's class declares as its requirement on the source:
\* kernel_shape, or twice the halo for a ChannelwiseFastFilter
Requirement(fx, source) ==
    IF fx.kind = "ChannelwiseFastFilter"
    THEN [a \in DOMAIN source |-> 2 * FastFilterHalo(DOMAIN source, fx.axis_2d)[a]]
    ELSE fx.kernel_shape

Inapplicable(fx, source) ==
    \/ \E a \in DOMAIN source : source[a] < Requirement(fx, source)[a]
    \/ fx.kind = "ChannelwiseFilter" /\ source["c"] # fx.num_input_channels

ComputeFailsFast ==
    (ap_pc = "returned" /\ ~ap_checked /\ Inapplicable(ap_fx, ap_source))
        => ap_outcome = "mismatch"

ConcurrentAtMostOnce ==
    \A r \in RaceRegions : ra_calls[r] <= 1

\* the halo-enlarged region of a tile lies within the data source
Unclipped(tile) ==
    Contains(ha_source, Enlarged(tile, FastFilterHalo(AxesOf(tile), ha_fx.axis_2d)))

\* the voxels of the block over R that stem from the tile's input voxels
TilePositions(tile) ==
    {pos \in DOMAIN ha_direct :
        /\ tile.start["x"] <= pos[1] /\ pos[1] < tile.stop["x"]
        /\ \E ch \in tile.start["c"]..(tile.stop["c"] - 1) :
               pos[2] \div ha_fx.multiplier = ch - ha_roi.start["c"]}

(* C2: computing the extractor tile by tile over a partition of R and      *)
(* merging the tile results gives the same block as one direct compute     *)
(* over R, for every tile whose halo-enlarged region is not clipped by the *)
(* data source boundary.                                                   *)
HaloConsistency ==
    ha_pc = "done" =>
        \A k \in 1..Len(ha_tiles) :
            Unclipped(ha_tiles[k]) =>
                \A pos \in TilePositions(ha_tiles[k]) : ha_merged[pos] = ha_direct[pos]

\* the same, for kernels that reach no further than the halo and tiles that
\* hold every channel of R
HaloConsistencyWithinHalo ==
    (/\ ha_pc = "done"
     /\ ha_fx.reach <= HaloRadius
     /\ \A k \in 1..Len(ha_tiles) :
            /\ ha_tiles[k].start["c"] = ha_roi.start["c"]
            /\ ha_tiles[k].stop["c"] = ha_roi.stop["c"])
        => \A k \in 1..Len(ha_tiles) :
               Unclipped(ha_tiles[k]) =>
                   \A pos \in TilePositions(ha_tiles[k]) : ha_merged[pos] = ha_direct[pos]

(* C3: merging the same set of pairwise disjoint tile results into the     *)
(* output buffer with set yields the same final buffer for every           *)
(* permutation of the merge order: the buffer after all tiles were merged, *)
(* in whatever order, is the buffer of the merge in the tiles' own order.  *)
MergeCommutativity ==
    me_merged = 1..Len(me_tiles) =>
        me_buffer = MergedInOrder(AllocatePredictions(me_roi), me_tiles)

\* at least three tiles were all merged, and not in the tiles' own order
MergeCommutativityWitness ==
    /\ Len(me_tiles) >= 3
    /\ me_merged = 1..Len(me_tiles)
    /\ me_shuffled

(* C4: given the same classifier, data source and region, and no tile      *)
(* failure, the final merged output buffer is identical after a run with   *)
(* the thread-pool, the process-pool and the distributed backend, for      *)
(* every worker count and every scheduling of the workers.                 *)
BackendEquivalence ==
    or_fail = {} =>
        /\ \A b \in BackendSet : or_runs[b].outcome \in {"none", "finished"}
        /\ \A b1, b2 \in BackendSet :
               (or_runs[b1].outcome = "finished" /\ or_runs[b2].outcome = "finished")
                   => or_runs[b1].predictions = or_runs[b2].predictions

\* all three backends have run to their end on three or more tiles with
\* two workers, no tile failing
BackendEquivalenceWitness ==
    /\ or_pc = "finished"
    /\ or_fail = {}
    /\ Len(or_tiles) >= 3
    /\ or_workers = 2
    /\ or_backend = Backends[Len(Backends)]
    /\ \A b \in BackendSet : or_runs[b].outcome = "finished"

(* C5: in every backend, if the computation of any single tile fails, the  *)
(* run ends with an error surfaced to the caller and never reports         *)
(* completion with a partially merged output buffer.                       *)
FailFast ==
    or_pc = "finished" => \A k \in DOMAIN or_state : or_state[k] # "failed"

\* how often tile k was set into the buffer in the current run
TimesMerged(k) == Cardinality({i \in 1..Len(or_merged) : or_merged[i] = k})

(* C11: at every point of a thread-pool run, the regions written by the    *)
(* sets that are in flight at the same time are pairwise disjoint: no two  *)
(* concurrent set calls touch the same voxel.                              *)
ConcurrentSetsDisjoint ==
    or_backend = "thread-pool" =>
        \A j, k \in InWorker({"setting"}) :
            j # k => Voxels(or_tiles[j]) \cap Voxels(or_tiles[k]) = {}

\* two threads are inside predictions.set at the same time
ConcurrentSetsDisjointWitness ==
    /\ or_backend = "thread-pool"
    /\ or_pc = "running"
    /\ Cardinality(InWorker({"setting"})) >= 2

(* C12: in the thread-pool backend exactly one task is submitted per tile, *)
(* no tile is computed or merged more than once, and when no tile fails    *)
(* every tile has been merged into the buffer by the time the pool has     *)
(* shut down, for every completion order of the threads.                   *)
ThreadPoolOncePerTile ==
    or_backend = "thread-pool" =>
        /\ DOMAIN or_state = 1..Len(or_tiles)
        /\ \A k \in DOMAIN or_state : or_computed[k] <= 1 /\ TimesMerged(k) <= 1
        /\ (or_pc = "finished" /\ or_fail = {}) =>
               \A k \in DOMAIN or_state :
                   /\ or_state[k] = "set"
                   /\ or_computed[k] = 1
                   /\ TimesMerged(k) = 1
                   /\ \A p \in Voxels(or_tiles[k]) :
                          or_predictions[p] = PredictTile(or_tiles[k])[p]

\* the pool has shut down after three or more tiles were merged in another
\* order than that of their submission
ThreadPoolOncePerTileWitness ==
    /\ or_backend = "thread-pool"
    /\ or_pc = "finished"
    /\ or_fail = {}
    /\ Len(or_tiles) >= 3
    /\ Len(or_merged) = Len(or_tiles)
    /\ or_merged[1] # 1

(* C15: in the process-pool backend the coordinator merges the results     *)
(* serially in batch order and, within a batch, in the order the worker    *)
(* computed them, so the merge order equals the order of the tile list     *)
(* whichever worker finishes first; no merge happens inside a worker.      *)
ProcessPoolMergeOrder ==
    or_backend = "process-pool" =>
        /\ or_merged = [i \in 1..Len(or_merged) |-> i]
        /\ \A k \in DOMAIN or_state :
               or_state[k] \in {"queued", "predicted", "failed"} =>
                   \A p \in Voxels(or_tiles[k]) \cap DOMAIN or_predictions :
                             or_predictions[p] = NoPrediction
        /\ or_pc = "finished" => Len(or_merged) = Len(or_tiles)

\* the third batch is done before the second one has started, and the
\* coordinator has merged the first batch only
ProcessPoolMergeOrderWitness ==
    /\ or_backend = "process-pool"
    /\ or_pc = "running"
    /\ Len(or_batches) >= 3
    /\ or_batch_state[2] = "queued"
    /\ or_batch_state[3] = "done"
    /\ or_next = 2
    /\ or_merged = or_batches[1]

\* the batches joined in batch order
RECURSIVE Flatten(_)
Flatten(seqs) == IF Len(seqs) = 0 THEN <<>> ELSE Head(seqs) \o Flatten(Tail(seqs))

(* C13: in the process-pool backend the batches are contiguous slices of   *)
(* the tile list and their concatenation in batch order equals the tile    *)
(* list, for every tile list (including the empty one) and every           *)
(* worker_count >= 1.                                                      *)
BatchesPartition ==
    ba_pc = "done" =>
        /\ ba_outcome = "ok"
        /\ Flatten(ba_batches) = [i \in 1..ba_slices |-> i]

\* the same for tile lists that are not empty
BatchesPartitionNonEmpty ==
    (ba_pc = "done" /\ ba_slices >= 1) =>
        /\ ba_outcome = "ok"
        /\ Flatten(ba_batches) = [i \in 1..ba_slices |-> i]

(* C14: in the process-pool backend the tile list is partitioned into      *)
(* exactly worker_count batches, for every number of tiles and every       *)
(* worker_count >= 1.                                                      *)
BatchCountIsWorkerCount ==
    ba_pc = "done" =>
        /\ ba_outcome = "ok"
        /\ Len(ba_batches) = ba_workers

(* C14, as the code batches: a tile list of n >= 1 tiles is partitioned    *)
(* into ceil(n / ceil(n / worker_count)) batches, which is at least one,   *)
(* at most worker_count, and exactly worker_count when worker_count        *)
(* divides n; for the empty tile list no batches are built, the batching   *)
(* ends in a ValueError.                                                   *)
BatchCountWithinWorkerCount ==
    ba_pc = "done" =>
        IF ba_slices = 0 THEN ba_outcome = "ValueError"
        ELSE /\ ba_outcome = "ok"
             /\ Len(ba_batches) = CeilDiv(ba_slices, CeilDiv(ba_slices, ba_workers))
             /\ 1 <= Len(ba_batches) /\ Len(ba_batches) <= ba_workers
             /\ \A b \in 1..Len(ba_batches) : Len(ba_batches[b]) >= 1
             /\ ba_slices % ba_workers = 0 => Len(ba_batches) = ba_workers

\* five tiles and four workers make three batches
BatchCountWithinWorkerCountWitness ==
    /\ ba_pc = "done"
    /\ ba_slices = 5
    /\ ba_workers = 4
    /\ Len(ba_batches) = 3

Submitted == InWorker({"running", "predicted", "setting", "set", "failed"})

WriteProtectedBlocks ==
    /\ \A i \in DOMAIN ca_cache :
           /\ ~ca_cache[i].value.writeable
           /\ ca_cache[i].value.data = "kernel"
    /\ ca_last.key # NoKey =>
           /\ ~ca_last.value.writeable
           /\ ca_last.value.data = "kernel"
    /\ ca_last.wrote # "written"

\* a caller tried to write into a block that a cache hit had returned
WriteProtectedBlocksWitness ==
    /\ ca_last.hit
    /\ ca_last.wrote = "refused"
    /\ \E i \in DOMAIN ca_cache : ca_cache[i].value = ca_last.value

\* the keys the cache holds
CachedKeys == {ca_cache[i].key : i \in DOMAIN ca_cache}

\* the keys whose result has been materialized
MaterializedKeys == {KeyAt(i) : i \in 0..(ca_next - 1)}

AnnotationContained ==
    /\ \A annotation \in an_annotations : Contains(an_raw, annotation)
    /\ (an_last.via # "none" /\ ~Contains(an_raw, an_last.roi)) =>
           /\ an_last.outcome = "AnnotationOutOfBounds"
           /\ an_last.roi \notin an_annotations

(* C21, with the failure interpolate_from_points raises first: every       *)
(* annotation that exists lies inside its raw dataset's region; a          *)
(* construction with a region that exceeds it yields no annotation and     *)
(* fails with AnnotationOutOfBounds, except that interpolate_from_points   *)
(* fails with ValueError when its points span more than one channel.       *)
AnnotationContainedOrRejected ==
    /\ \A annotation \in an_annotations : Contains(an_raw, annotation)
    /\ (an_last.via # "none" /\ ~Contains(an_raw, an_last.roi)) =>
           /\ an_last.roi \notin an_annotations
           /\ an_last.outcome =
                  IF an_last.via = "interpolate" /\ ShapeOf(an_last.roi)["c"] # 1
                  THEN "ValueError" ELSE "AnnotationOutOfBounds"
    /\ an_last.outcome = "annotation" => an_last.roi \in an_annotations

\* an annotation exists and a rebuild of it at another location was
\* rejected as out of bounds
AnnotationContainedWitness ==
    /\ an_annotations # {}
    /\ an_last.via = "rebuild"
    /\ an_last.outcome = "AnnotationOutOfBounds"
    /\ ~Disjoint(an_raw, an_last.roi)

\* how often the voxel at x has a row in the returned feature matrix
RowsOf(x) == Cardinality({i \in DOMAIN fs_result : fs_result[i] = x})

(* C22: the feature matrix get_feature_samples returns holds exactly one   *)
(* sample row per true voxel of the annotation: every data tile that       *)
(* overlaps the annotated region contributes its true voxels once, and no  *)
(* other voxel contributes a row.                                          *)
OneRowPerMaskedVoxel ==
    fs_pc = "returned" =>
        /\ \A x \in fs_mask : RowsOf(x) = 1
        /\ \A i \in DOMAIN fs_result : fs_result[i] \in fs_mask

\* C22 holds for the runs in which no tile's computation raises
OneRowPerMaskedVoxelWithoutFailure ==
    (fs_pc = "returned" /\ fs_fail = {}) =>
        /\ \A x \in fs_mask : RowsOf(x) = 1
        /\ \A i \in DOMAIN fs_result : fs_result[i] \in fs_mask
        /\ Len(fs_result) = Cardinality(fs_mask)

(* C23: a failure of data retrieval or feature computation for one tile    *)
(* inside get_feature_samples is never swallowed: the call does not return *)
(* a feature matrix built from the remaining tiles only.                   *)
SampleFailureSurfaces ==
    fs_pc = "returned" => \A k \in DOMAIN fs_state : fs_state[k] # "failed"

-----------------------------------------------------------------------------
(* C24: when ChannelwiseFilter.compute_into has returned, the input was    *)
(* split into one piece per channel, per time step and, with axis_2d, per  *)
(* slice along that axis; the output block has the expected shape (the     *)
(* channel count times channel_multiplier, the other axes unchanged); the  *)
(* input and the output split have the same number of pieces; and every    *)
(* voxel of the output block was written by exactly one sub-problem.       *)
ChannelwisePartition ==
    (cw_pc = "done" /\ cw_path = "compute_into") =>
        LET shape == ShapeOf(cw_roi)
            slices == IF cw_fx.axis_2d = "none" THEN 1 ELSE shape[cw_fx.axis_2d]
        IN /\ Len(cw_in) = shape["c"] * shape["t"] * slices
           /\ \A k \in DOMAIN cw_in :
                  /\ ShapeOf(cw_in[k])["c"] = 1
                  /\ ShapeOf(cw_in[k])["t"] = 1
                  /\ cw_fx.axis_2d # "none" => ShapeOf(cw_in[k])[cw_fx.axis_2d] = 1
           /\ Len(cw_out) = Len(cw_in)
           /\ ShapeOf(cw_block) = [shape EXCEPT !["c"] = shape["c"] * cw_fx.multiplier]
           /\ DOMAIN cw_writers = Cells(cw_block)
           /\ \A p \in Cells(cw_block) : Len(cw_writers[p]) = 1

\* compute_into has returned for several channels, time steps and slices
\* with a channel multiplier above one
ChannelwisePartitionWitness ==
    /\ cw_pc = "done"
    /\ cw_path = "compute_into"
    /\ cw_fx.multiplier > 1
    /\ cw_fx.axis_2d = "y"
    /\ \A a \in {"c", "t", "y", "x"} : ShapeOf(cw_roi)[a] > 1
    /\ cw_roi.start["c"] > 0 \/ cw_roi.start["x"] = 0

(* C25: once the output block exists, the sub-result of the piece at input *)
(* channel index k (counted from the region's first channel) covers the    *)
(* output channels [k * channel_multiplier, (k + 1) * channel_multiplier), *)
(* counted from the block's first channel, at the piece's own time step,   *)
(* slice and spatial extent; sub-results of different pieces never overlap. *)
ChannelSlots ==
    cw_pc = "done" =>
        /\ Len(cw_out) = Len(cw_in)
        /\ \A k \in DOMAIN cw_out :
               LET channel_index == cw_in[k].start["c"] - cw_roi.start["c"]
                   first_c == cw_out[k].start["c"] - cw_block.start["c"]
               IN /\ first_c = channel_index * cw_fx.multiplier
                  /\ ShapeOf(cw_out[k])["c"] = cw_fx.multiplier
                  /\ \A a \in {"t", "y", "x"} :
                         /\ cw_out[k].start[a] = cw_in[k].start[a]
                         /\ cw_out[k].stop[a] = cw_in[k].stop[a]
                  /\ \A p \in Cells(cw_out[k]) : cw_writers[p] = <<k>>
        /\ \A j, k \in DOMAIN cw_out : j # k => Cells(cw_out[j]) \cap Cells(cw_out[k]) = {}

\* ChannelwiseFastFilter.compute has returned for two input channels and a
\* kernel that emits several channels per input channel
ChannelSlotsWitness ==
    /\ cw_pc = "done"
    /\ cw_path = "compute"
    /\ cw_fx.multiplier > 1
    /\ ShapeOf(cw_roi)["c"] > 1
    /\ ShapeOf(cw_roi)["t"] > 1
    /\ Len(cw_out) > 2

(* C26: every region that a compute call asks of the preprocessor lies     *)
(* inside the data source's region.                                        *)
RequestsInsideSource ==
    \A haloed_roi \in cw_requests : Contains(cw_source, haloed_roi)

\* what the code does hand on: the piece grown by the halo on both sides of
\* every spatial axis, nothing cut off
RequestsAreEnlargedPieces ==
    (cw_path = "compute" /\ cw_fx.presmooth_sigma = 0) =>
        /\ \A k \in DOMAIN cw_inputs :
               cw_inputs[k].roi = Enlarged(cw_in[k], FastFilterHalo(ChanAxes, cw_fx.axis_2d))
        /\ cw_requests = {cw_inputs[k].roi : k \in DOMAIN cw_inputs}

(* C27: a compute call never runs more than one smoothing sub-operator     *)
(* inside another call, the sub-operator has presmooth_sigma 0 and works   *)
(* on the halo-enlarged piece of its caller; the kernel's input of every   *)
(* piece is the smoothed block when presmooth_sigma > 0 and the            *)
(* preprocessor's raw data otherwise; and the call returns.                *)
SmoothingNestsOnce ==
    /\ Len(cw_stack) <= 2
    /\ \A i \in 2..Len(cw_stack) :
           LET caller == cw_stack[i - 1]
           IN /\ cw_stack[i].fx.kind = "GaussianSmoothing"
              /\ cw_stack[i].fx.presmooth_sigma = 0
              /\ caller.fx.presmooth_sigma > 0
              /\ cw_stack[i].roi = Enlarged(caller.slices[caller.idx],
                                            FastFilterHalo(ChanAxes, caller.fx.axis_2d))
    /\ cw_path = "compute" =>
           \A k \in DOMAIN cw_inputs :
               /\ cw_inputs[k].roi = Enlarged(cw_in[k], FastFilterHalo(ChanAxes, cw_fx.axis_2d))
               /\ cw_inputs[k].data = IF cw_fx.presmooth_sigma > 0 THEN "smoothed" ELSE "raw"

\* the top call waits for a smoothing sub-operator it cannot enter: the
\* nesting has reached the interpreter's limit
NestingExhausted ==
    /\ cw_pc = "compute"
    /\ Len(cw_stack) >= MaxNesting
    /\ LET top == cw_stack[Len(cw_stack)]
       IN /\ top.idx <= Len(top.slices)
          /\ top.fx.presmooth_sigma > 0
          /\ top.source_data = "none"

\* the steps one piece takes: enter the sub-operator, its kernel, its return,
\* the kernel; or the kernel alone
PieceSteps(fx) == IF fx.presmooth_sigma > 0 THEN 4 ELSE 1

\* the steps call number i of the stack still has to take itself
FrameSteps(i) ==
    LET f == cw_stack[i]
        left == Len(f.slices) - f.idx + 1
    IN IF left <= 0 THEN 1
       ELSE IF i < Len(cw_stack) \/ f.source_data # "none"
            THEN (left - 1) * PieceSteps(f.fx) + 2
            ELSE left * PieceSteps(f.fx) + 1

\* the number of steps left until the outermost call has returned
StepsLeft ==
    CASE cw_pc = "start" ->
             Len(Split(cw_roi, RoiStep(ShapeOf(cw_roi), cw_fx.axis_2d))) * PieceSteps(cw_fx) + 2
      [] cw_pc = "compute_into" -> Len(cw_in) - cw_idx + 2
      [] cw_pc = "compute" -> SumSeq([i \in 1..Len(cw_stack) |-> FrameSteps(i)])
      [] OTHER -> 0

SmoothingNestsOnceAndReturns ==
    /\ [](SmoothingNestsOnce /\ ~NestingExhausted /\ StepsLeft >= 0)
    /\ [][StepsLeft' < StepsLeft]_varsChan

\* a call with presmoothing has returned after several smoothed pieces
SmoothingNestsOnceWitness ==
    /\ cw_pc = "done"
    /\ cw_path = "compute"
    /\ cw_fx.presmooth_sigma > 0
    /\ Len(cw_inputs) > 1
    /\ \A k \in DOMAIN cw_inputs : cw_inputs[k].data = "smoothed"

-----------------------------------------------------------------------------
(* C28: the body served for a chunk request has exactly one byte per voxel *)
(* of the requested region and per prediction channel, each an unsigned    *)
(* 8-bit value, and the value of voxel (x, y, z, c), counted from the      *)
(* requested region's start, is at offset x + X*(y + Y*(z + Z*c)); this    *)
(* also holds for a request that reaches past the data source's region.    *)
WireLayout ==
    wi_pc = "served" =>
        LET X == ShapeOf(wi_request)["x"]
            Y == ShapeOf(wi_request)["y"]
            Z == ShapeOf(wi_request)["z"]
        IN /\ Len(wi_body) = X * Y * Z * wi_classes
           /\ \A i \in DOMAIN wi_body : wi_body[i] \in 0..(2 ^ ByteWidth - 1)
           /\ \A x \in 0..(X - 1), y \in 0..(Y - 1), z \in 0..(Z - 1), c \in 0..(wi_classes - 1) :
                  wi_body[1 + x + X * (y + Y * (z + Z * c))] =
                      wi_predictions.data[<<wi_request.start["x"] + x, wi_request.start["y"] + y,
                                            wi_request.start["z"] + z, c>>] % (2 ^ ByteWidth)

\* a chunk with several voxels along every axis and several channels was
\* served for a request that reaches past the data source
WireLayoutWitness ==
    /\ wi_pc = "served"
    /\ wi_classes > 1
    /\ \A a \in {"x", "y", "z"} : ShapeOf(wi_request)[a] > 1
    /\ ~Contains(wi_source, Defined(wi_request, wi_source))
    /\ Len(wi_body) > 0

-----------------------------------------------------------------------------
(* C30: one call of _requests_from_data_proxy refreshes the token at most  *)
(* once and sends at most two HTTP requests, the second one only after a   *)
(* 401 and a successful refresh; a 401 answer to the second request is     *)
(* returned as a failure value; a failed refresh is returned as the        *)
(* result with only the first request sent; and the call is never left     *)
(* waiting to send a further request.                                      *)
BoundedRetry ==
    /\ Len(px_refreshes) <= 1
    /\ Len(px_sent) <= 2
    /\ px_pc = "call" => Len(px_sent) < 2
    /\ Len(px_sent) = 2 => /\ px_sent[1] = Unauthorized
                           /\ px_refreshes = <<"token">>
                           /\ px_pc = "returned"
                           /\ px_result = ProxyResult(px_sent[2])
    /\ (Len(px_sent) = 2 /\ px_sent[2] = Unauthorized) =>
           px_result = [kind |-> "ErrRequestCompletedAsFailure", status |-> Unauthorized]
    /\ (px_refreshes # <<>> /\ px_refreshes[1] # "token") =>
           /\ Len(px_sent) = 1
           /\ px_pc = "returned"
           /\ px_result.kind = IF px_refreshes[1] = "error" THEN "refresh error"
                               ELSE "ErrRequestCrashed"

\* the second request, sent after a refresh, was answered with 401 again
BoundedRetryWitness ==
    /\ px_pc = "returned"
    /\ px_sent = <<Unauthorized, Unauthorized>>
    /\ px_refreshes = <<"token">>

\* the refresh failed after the first 401
RefreshFailureWitness ==
    /\ px_pc = "returned"
    /\ px_sent = <<Unauthorized>>
    /\ px_refreshes = <<"error">>

-----------------------------------------------------------------------------
(* C29: what was decoded from the encoding of an object equals the object: *)
(* an extractor under FeatureExtractor equality (same class, same          *)
(* __dict__), a BucketFs by the bucket it names.                           *)
RoundTripByValue ==
    rt_pc = "decoded" =>
        IF rt_x.class = "BucketFs" THEN rt_y.bucket_name = rt_x.bucket_name
        ELSE rt_y = rt_x

\* the round trip of the objects whose preprocessor is the constructors'
\* default, and of every BucketFs
RoundTripWithDefaultPreprocessor ==
    (rt_pc = "decoded" /\ rt_x.class # "BucketFs" /\ rt_x.preprocessor = "OpRetriever()") =>
        rt_y = rt_x

RoundTripOfBucketFs ==
    (rt_pc = "decoded" /\ rt_x.class = "BucketFs") => rt_y = rt_x

-----------------------------------------------------------------------------
(* C31: when _requests_from_data_proxy has returned after its last request *)
(* was answered (no failed refresh in between), the result is decided by   *)
(* that answer: a crashed request gives ErrRequestCrashed, status 404      *)
(* FsFileNotFoundException, any other status of 400 or more (a 401         *)
(* included, which can only be final when no refresh is allowed any more)  *)
(* ErrRequestCompletedAsFailure with that status, and only a status below  *)
(* 400 the content; a refresh that raises gives ErrRequestCrashed.         *)
OutcomeByFinalResponse ==
    px_pc = "returned" =>
        LET final == px_sent[Len(px_sent)]
        IN /\ px_result # <<>>
           /\ (px_refreshes = <<>> \/ px_refreshes = <<"token">>) =>
                  /\ final = Crashed => px_result.kind = "ErrRequestCrashed"
                  /\ final = 404 => px_result = [kind |-> "FsFileNotFoundException", status |-> 404]
                  /\ (final >= 400 /\ final # 404) =>
                         px_result = [kind |-> "ErrRequestCompletedAsFailure", status |-> final]
                  /\ final = 401 => ~px_refresh_on_401
                  /\ px_result.kind = "content" <=> (final # Crashed /\ final < 400)
           /\ px_refreshes = <<"raises">> => px_result.kind = "ErrRequestCrashed"
           /\ px_result.kind = "content" => (final # Crashed /\ final < 400)

\* the nested call after a refresh got a client error other than 401 or 404
OutcomeByFinalResponseWitness ==
    /\ px_pc = "returned"
    /\ px_sent = <<Unauthorized, 403>>
    /\ px_result.kind = "ErrRequestCompletedAsFailure"

-----------------------------------------------------------------------------
(* C32: read_file and get_size keep not-found apart from other I/O         *)
(* failures: when the data proxy or the object store answered 404 the      *)
(* result is FsFileNotFoundException, every other failure is an            *)
(* FsIoException, and bytes or a size are returned only when both answered *)
(* without failure.                                                        *)
AnsweredNotFound ==
    \/ bk_proxy # <<>> /\ bk_proxy.kind = "FsFileNotFoundException"
    \/ bk_store # <<>> /\ bk_store.status = NotFound

NotFoundKeptApart ==
    bk_pc = "returned" =>
        /\ bk_result.kind \in {"FsFileNotFoundException", "FsIoException", "bytes", "size"}
        /\ AnsweredNotFound <=> bk_result.kind = "FsFileNotFoundException"
        /\ bk_result.kind \in {"bytes", "size"} =>
               /\ bk_proxy.kind = "content"
               /\ bk_store # <<>> /\ bk_store.status # Crashed /\ Ok(bk_store.status)

\* the part of C32 that holds: get_size keeps the object store's 404 apart,
\* and read_file the data proxy's
NotFoundKeptApartBySize ==
    (bk_pc = "returned" /\ (bk_op = "get_size" \/ bk_store = <<>>)) =>
        (AnsweredNotFound <=> bk_result.kind = "FsFileNotFoundException")

ReadFileOfMissingObject ==
    /\ bk_pc = "returned"
    /\ bk_op = "read_file"
    /\ bk_store # <<>> /\ bk_store.status = NotFound
    /\ bk_result.kind = "FsIoException"

-----------------------------------------------------------------------------
(* C33: request_size returns the total size of the object for every        *)
(* combination of Content-Length and Content-Range with which the object   *)
(* store answers the one-byte ranged GET and that tells the total, without *)
(* downloading more than the one byte; when neither header gives the size  *)
(* the result is an error.                                                 *)
TellsTotal(headers) ==
    \/ /\ "content-range" \in DOMAIN headers
       /\ HasSlash(headers["content-range"])
       /\ IsDigit(AfterLastSlash(headers["content-range"]))
    \/ /\ "content-range" \notin DOMAIN headers
       /\ "content-length" \in DOMAIN headers
       /\ IsDigit(headers["content-length"])

RequestSizeIsTotalSize ==
    (bk_pc = "returned" /\ bk_op = "get_size" /\ bk_store # <<>> /\ bk_store.status # Crashed
        /\ Ok(bk_store.status)) =>
        IF TellsTotal(bk_store.headers)
        THEN bk_result = [kind |-> "size", value |-> bk_size] /\ bk_downloaded <= 1
        ELSE bk_result.kind = "FsIoException"

\* the part of C33 that holds: without a Content-Length the total of the
\* Content-Range is returned, and without a usable header an error
RequestSizeFromContentRange ==
    (bk_pc = "returned" /\ bk_op = "get_size" /\ bk_store # <<>> /\ bk_store.status # Crashed
        /\ Ok(bk_store.status) /\ "content-length" \notin DOMAIN bk_store.headers) =>
        IF TellsTotal(bk_store.headers)
        THEN bk_result = [kind |-> "size", value |-> bk_size]
        ELSE bk_result.kind = "FsIoException"

PartialResponseSizedByItsLength ==
    /\ bk_pc = "returned"
    /\ bk_op = "get_size"
    /\ bk_size = 3
    /\ bk_store # <<>> /\ bk_store.status = 206
    /\ "content-length" \in DOMAIN bk_store.headers
    /\ "content-range" \in DOMAIN bk_store.headers
    /\ bk_store.headers["content-range"] = ContentRange(Decimal(3))
    /\ bk_result = [kind |-> "size", value |-> 1]

-----------------------------------------------------------------------------
(* C34: delete terminates; the waiting loop fetches the parent listing at  *)
(* most ceil(dir_wait_time / dir_wait_interval) times and stops at the     *)
(* first listing without the directory, at the first listing that fails,   *)
(* or when the wait time is used up.                                       *)

\* ceil(dir_wait_time / dir_wait_interval) in real numbers: the least k
\* with dir_wait_time <= k * dir_wait_interval
CeilOfRatio ==
    LET wait == FromInt(de_wait_time, de_wait_interval.e).n
        interval == de_wait_interval.n
    IN CHOOSE k \in 0..(10 * MaxWaitSeconds) :
           /\ ~LimbsLess(LimbsTimes(interval, k), wait)
           /\ k = 0 \/ LimbsLess(LimbsTimes(interval, k - 1), wait)

PollsWithinCeilPlusOne ==
    de_pc \in {"poll", "returned"} => Len(de_polls) <= CeilOfRatio + 1

StillListed(listing) == listing.kind = "FsDirectoryContents" /\ listing.directories

StopsAtFirstEnd ==
    /\ \A i \in 1..(Len(de_polls) - 1) : StillListed(de_polls[i])
    /\ de_pc = "poll" => /\ \A i \in 1..Len(de_polls) : StillListed(de_polls[i])
                         /\ WaitTimeLeft(de_left)
    /\ (de_pc = "returned" /\ de_polls # <<>>) =>
           LET last == de_polls[Len(de_polls)]
           IN CASE last.kind # "FsDirectoryContents" -> de_result = last.kind
                [] StillListed(last) -> de_result = "FsIoException" /\ ~WaitTimeLeft(de_left)
                [] OTHER -> de_result = "None"

\* the number of steps delete can still take
DeleteStepsLeft ==
    CASE de_pc = "list" -> CeilOfRatio + 4
      [] de_pc = "delete" -> CeilOfRatio + 3
      [] de_pc = "poll" -> CeilOfRatio + 2 - Len(de_polls)
      [] OTHER -> 0

-----------------------------------------------------------------------------
-----------------------------------------------------------------------------
(* C36: the export worker runs the steps one at a time in the order of the *)
(* tile partition; at the first step that returns an error it exits with   *)
(* status 1, runs no later step and does not print the success message;    *)
(* the success message is printed only after every step of the partition   *)
(* has returned without error.                                             *)
ExportStepsInOrder ==
    /\ Len(ex_ran) <= Len(ex_args)
    /\ \A i \in 1..Len(ex_ran) : ex_ran[i].arg = ex_args[i]
    /\ \A i \in 1..(Len(ex_ran) - 1) : ex_ran[i].result = "None"
    /\ ex_pc = "running" => \A i \in 1..Len(ex_ran) : ex_ran[i].result = "None"
    /\ (ex_ran # <<>> /\ ex_ran[Len(ex_ran)].result # "None") =>
           ex_pc = "exited" /\ ex_status = 1 /\ ~ex_completed
    /\ ex_completed =>
           /\ ex_pc = "exited" /\ ex_status = 0
           /\ ex_args # <<>> /\ Len(ex_ran) = Len(ex_args)
           /\ \A i \in 1..Len(ex_ran) : ex_ran[i].result = "None"
    /\ (ex_pc = "exited" /\ ~ex_completed) => ex_status = 1

\* the second of at least three steps returned an error
ExportStepsInOrderWitness ==
    /\ ex_pc = "exited"
    /\ Len(ex_args) >= 3
    /\ Len(ex_ran) = 2
    /\ ex_ran[2].result = "Exception"
    /\ ex_status = 1

-----------------------------------------------------------------------------
(* C37: in the server's do_predictions every tile of the requested region  *)
(* is in exactly one batch, every batch index is a valid executor index,   *)
(* the batches of a request go to different executors and no executor runs *)
(* two batches at once, and when a request returns its buffer every tile's *)
(* result has been set into that buffer exactly once.                      *)
TimesBatched(r, k) ==
    Cardinality({<<b, j>> \in (1..Len(sv_batches[r])) \X (1..sv_tiles) :
                     j <= Len(sv_batches[r][b].slices) /\ sv_batches[r][b].slices[j] = k})

ServerBatching ==
    \A r \in DOMAIN sv_pc :
        /\ sv_pc[r] # "start" =>
               /\ \A k \in 1..sv_tiles : TimesBatched(r, k) = 1
               /\ \A b \in 1..Len(sv_batches[r]) :
                      /\ sv_batches[r][b].idx \in 0..(sv_workers - 1)
                      /\ sv_batches[r][b].slices # <<>>
                      /\ \A c \in 1..Len(sv_batches[r]) :
                             sv_batches[r][c].idx = sv_batches[r][b].idx => c = b
        /\ \A i \in DOMAIN sv_running :
               /\ Cardinality(sv_running[i]) <= 1
               /\ \A item \in sv_running[i] : sv_batches[item[1]][item[2]].idx = i
        /\ \A k \in 1..sv_tiles : sv_merged[r][k] <= 1
        /\ sv_pc[r] = "returned" =>
               /\ \A k \in 1..sv_tiles : sv_merged[r][k] = 1
               /\ \A b \in 1..Len(sv_batches[r]) :
                      <<r, b>> \in DOMAIN sv_done /\ sv_done[<<r, b>>] = "result"

\* both requests have returned, their batches having queued on both
\* executors, with a tile of negative hash
ServerBatchingWitness ==
    /\ sv_workers = 2
    /\ sv_tiles = 2
    /\ \A r \in DOMAIN sv_pc : sv_pc[r] = "returned" /\ Len(sv_batches[r]) = 2
    /\ \E k \in 1..sv_tiles : sv_hash[k] < 0

-----------------------------------------------------------------------------
(* C38: the feature matrix that get_feature_samples returns is the same,   *)
(* the order of its rows included, for every order in which the worker     *)
(* threads complete: the rows of the tiles that were computed, in the      *)
(* order of the tiles.                                                     *)
RECURSIVE RowsInTileOrder(_)
RowsInTileOrder(k) ==
    IF k > Len(fs_tiles) THEN <<>>
    ELSE (IF k \in fs_fail THEN <<>> ELSE SampleRows(fs_tiles[k])) \o RowsInTileOrder(k + 1)

SameMatrixForEverySchedule ==
    fs_pc = "returned" => fs_result = RowsInTileOrder(1)

\* what holds instead: the same rows, each as often, in some order
SameRowsForEverySchedule ==
    fs_pc = "returned" =>
        /\ Len(fs_result) = Len(RowsInTileOrder(1))
        /\ \A x \in fs_mask :
               Cardinality({i \in 1..Len(fs_result) : fs_result[i] = x})
                   = Cardinality({i \in 1..Len(RowsInTileOrder(1)) : RowsInTileOrder(1)[i] = x})

\* no tile failed, and the second tile's rows come before the first's
RowsInCompletionOrder ==
    /\ fs_pc = "returned"
    /\ fs_fail = {}
    /\ Len(fs_tiles) = 2
    /\ fs_result = SampleRows(fs_tiles[2]) \o SampleRows(fs_tiles[1])
    /\ fs_result # RowsInTileOrder(1)

-----------------------------------------------------------------------------
(* C39: create_color_map gives the n distinct colors the label indices     *)
(* 1..n, one index per color and none twice, in ascending order of the     *)
(* q_rgba key; distinct colors have distinct keys, so that the map is a    *)
(* function of the set of colors alone; get_y yields one row per sample    *)
(* row, every row that label.                                              *)
LabelsOneToN ==
    cm_pc \in {"mapped", "labelled"} =>
        /\ DOMAIN cm_map = cm_colors
        /\ {cm_map[color] : color \in cm_colors} = 1..Cardinality(cm_colors)
        /\ \A c, d \in cm_colors : QRgba(c) < QRgba(d) => cm_map[c] < cm_map[d]

LabelColumn ==
    cm_pc = "labelled" =>
        /\ Len(cm_y) = cm_volume
        /\ \E color \in cm_colors : \A row \in 1..cm_volume : cm_y[row] = <<cm_map[color]>>

ColorMapBySetAlone ==
    /\ LabelsOneToN
    /\ LabelColumn
    /\ cm_pc \in {"mapped", "labelled"} =>
           /\ \A c, d \in cm_colors : c # d => QRgba(c) # QRgba(d)
           /\ \A c \in cm_colors :
                  cm_map[c] = 1 + Cardinality({d \in cm_colors : QRgba(d) < QRgba(c)})

\* the part of C39 that holds
ColorMapLabels == LabelsOneToN /\ LabelColumn

\* two colors of one key, numbered in the order of the iteration
ColorsOfOneKey ==
    /\ cm_pc = "mapped"
    /\ cm_colors = {<<0, 16, 32, 255>>, <<1, 2, 0, 255>>}
    /\ QRgba(<<0, 16, 32, 255>>) = QRgba(<<1, 2, 0, 255>>)
    /\ cm_map[<<1, 2, 0, 255>>] = 1

-----------------------------------------------------------------------------
(* C40: an extractor constructed with a preprocessor reads its kernel      *)
(* input through that preprocessor: the instance's preprocessor is the one *)
(* passed in, whatever the class, and the presmoothing sub-operator that   *)
(* compute builds uses the same one.                                       *)
PreprocessorPassedOn ==
    /\ kx_pc \in {"constructed", "computed"} => kx_x.preprocessor = kx_args.preprocessor
    /\ kx_pc = "computed" =>
           /\ kx_read_by = kx_args.preprocessor
           /\ kx_smoothing # <<>> => kx_smoothing.preprocessor = kx_args.preprocessor

\* the part of C40 that holds: the classes that are no SigmaWindowFilter
\* keep the preprocessor, and read through it when they do not presmooth
PreprocessorKeptByOtherClasses ==
    (kx_pc \in {"constructed", "computed"} /\ kx_args.class \notin SigmaWindowFilters) =>
        /\ kx_x.preprocessor = kx_args.preprocessor
        /\ (kx_pc = "computed" /\ kx_x.presmooth_sigma = 0) => kx_read_by = kx_args.preprocessor

\* a presmoothing extractor that keeps its preprocessor, while its
\* smoothing sub-operator reads through the default one
SmoothingReadsThroughDefault ==
    /\ kx_pc = "computed"
    /\ kx_args.class = "DifferenceOfGaussians"
    /\ kx_args.preprocessor = "custom operator"
    /\ kx_x.preprocessor = "custom operator"
    /\ kx_smoothing # <<>>
    /\ kx_read_by = "OpRetriever()"

====
